---- MODULE Spec2Model ----
(***************************************************************************)
(* Wholesale-PriceX (src/scraper.py): the record extraction of the two     *)
(* scrapers, their record de-duplication, the base-item normalizer and the *)
(* grouped comparison built by main().                                     *)
(*                                                                         *)
(* Text is modelled as TLA+ strings, character by character: every regular *)
(* expression and every str method the code uses is an operator that does  *)
(* what the Python does on the characters.  A candidate element is a       *)
(* container whose children are leaf nodes (a tag, a class attribute and   *)
(* one text string each); a child with tag "#text" is a bare text node.    *)
(***************************************************************************)
EXTENDS Integers, Sequences, FiniteSets, Bags, TLC

VARIABLES
    pc,               \* position of main(): "hyperpure", "mandi", "compare", "done"
    scrape_hyperpure, \* main: the sidebar checkbox
    scrape_mandi,     \* main: the sidebar checkbox
    served,           \* number of candidate elements the two sites have served so far
    hp_seen_texts,    \* HyperpureScraper._scrape_all_products: seen_texts
    hp_count,         \* HyperpureScraper._scrape_all_products: len(unique_products)
    hp_seen_items,    \* HyperpureScraper._scrape_all_products: seen_items
    hp_items,         \* HyperpureScraper._scrape_all_products: items
    hp_extracted,     \* history: the records _extract_product_info returned, in order
    wm_page,          \* WholesaleMandiScraper.scrape: page
    wm_seen_items,    \* WholesaleMandiScraper._scrape_page: seen_items
    wm_items,         \* WholesaleMandiScraper._scrape_page: items
    wm_all_items,     \* WholesaleMandiScraper.scrape: all_items
    wm_extracted,     \* history: the records _extract_product_info returned, all pages
    hyperpure_df,     \* main: hyperpure_df, the object st.session_state shares
    mandi_df,         \* main: mandi_df, the object st.session_state shares
    session_keys,     \* main: the keys present in st.session_state
    comparison_df,    \* main: the rows of comparison_df
    inputs_before,    \* history: the two frames as they were passed to the grouper
    ex_phase,         \* single extraction: "build", "done" ("off" in a run of main)
    ex_element,       \* single extraction: the candidate element (its children)
    ex_source,        \* single extraction: the extractor that ran
    ex_result,        \* single extraction: the record returned, or None
    nm_phase,         \* normalization: "build", "keyed", "rekeyed" ("off" elsewhere)
    nm_words,         \* normalization: the words of item_name
    nm_key,           \* normalization: extract_base_item_name(item_name)
    nm_rekey,         \* normalization: extract_base_item_name of that key
    cd_phase,         \* _scrape_all_products: the block of the method that runs next
    cd_page,          \* _scrape_all_products: the blocks of driver.page_source
    cd_soup,          \* _scrape_all_products: soup, the nodes in document order
    cd_products,      \* _scrape_all_products: products (positions in soup)
    cd_steps,         \* history: the steps that changed products, and products after each
    cd_walk,          \* history: for every price string of Method 3, the ancestor the walk stopped at
    cd_unique,        \* _scrape_all_products: unique_products
    cd_index,         \* _scrape_all_products: position of the extraction loop
    cd_seen_items,    \* _scrape_all_products: seen_items
    cd_items,         \* _scrape_all_products: items
    pg_phase,         \* WholesaleMandiScraper.scrape: "loop", "return", "done" ("off" elsewhere)
    pg_page,          \* WholesaleMandiScraper.scrape: page
    pg_all_items,     \* WholesaleMandiScraper.scrape: all_items
    pg_requested,     \* history: the page numbers of the URLs given to driver.get
    pg_responses,     \* history: what each requested page turned out to be
    pg_df,            \* the frame scrape returned (None before it returns)
    sc_phase,         \* HyperpureScraper._scroll_page: "loop", "done" ("off" elsewhere)
    sc_attempt,       \* _scroll_page: iterations of the loop of line 173 that have run
    sc_last_height,   \* _scroll_page: last_height
    sc_no_change,     \* _scroll_page: no_change_count
    sc_last_change,   \* history: the last iteration that measured a new height (0: none)
    sc_final,         \* history: the final scrolls up and down of lines 185-189 were made
    sc_exit           \* history: how the loop ended: "settled", "exhausted", "error"

vars == << pc, scrape_hyperpure, scrape_mandi, served, hp_seen_texts, hp_count,
           hp_seen_items, hp_items, hp_extracted, wm_page, wm_seen_items,
           wm_items, wm_all_items, wm_extracted, hyperpure_df, mandi_df,
           session_keys, comparison_df, inputs_before,
           ex_phase, ex_element, ex_source, ex_result,
           nm_phase, nm_words, nm_key, nm_rekey,
           cd_phase, cd_page, cd_soup, cd_products, cd_steps, cd_walk, cd_unique,
           cd_index, cd_seen_items, cd_items,
           pg_phase, pg_page, pg_all_items, pg_requested, pg_responses, pg_df,
           sc_phase, sc_attempt, sc_last_height, sc_no_change, sc_last_change,
           sc_final, sc_exit >>

main_vars == << pc, scrape_hyperpure, scrape_mandi, served, hp_seen_texts, hp_count,
                hp_seen_items, hp_items, hp_extracted, wm_page, wm_seen_items,
                wm_items, wm_all_items, wm_extracted, hyperpure_df, mandi_df,
                session_keys, comparison_df, inputs_before >>

ex_vars == << ex_phase, ex_element, ex_source, ex_result >>

nm_vars == << nm_phase, nm_words, nm_key, nm_rekey >>

cd_vars == << cd_phase, cd_page, cd_soup, cd_products, cd_steps, cd_walk, cd_unique,
              cd_index, cd_seen_items, cd_items >>

pg_vars == << pg_phase, pg_page, pg_all_items, pg_requested, pg_responses, pg_df >>

sc_vars == << sc_phase, sc_attempt, sc_last_height, sc_no_change, sc_last_change,
              sc_final, sc_exit >>

(***************************************************************************)
(* Characters and Python's str methods.                                    *)
(***************************************************************************)
None == [none |-> TRUE]

LowerLetters == "abcdefghijklmnopqrstuvwxyz"
UpperLetters == "ABCDEFGHIJKLMNOPQRSTUVWXYZ"
DigitChars == "0123456789"

CharSet(str) == { SubSeq(str, i, i) : i \in 1..Len(str) }

LowerSet == CharSet(LowerLetters)
UpperSet == CharSet(UpperLetters)
DigitSet == CharSet(DigitChars)
SpaceSet == {" ", "\n", "\t"}

\* s[i], and "" outside the string
At(s, i) == IF i >= 1 /\ i <= Len(s) THEN SubSeq(s, i, i) ELSE ""

\* a lower-case letter outside a-z whose title case is two characters, "Ss", as
\* that of the ligatures is; str.lower() leaves it as it is
SharpS == "ß"

IsAlpha(c) == c \in LowerSet \/ c \in UpperSet \/ c = SharpS
IsDigit(c) == c \in DigitSet
IsAlnum(c) == IsAlpha(c) \/ IsDigit(c)
IsSpace(c) == c \in SpaceSet
\* the regular expressions' \w
IsWordChar(c) == IsAlnum(c) \/ c = "_"

IndexIn(str, c) == CHOOSE i \in 1..Len(str) : SubSeq(str, i, i) = c

LowerChar(c) == IF c \in UpperSet THEN At(LowerLetters, IndexIn(UpperLetters, c)) ELSE c
UpperChar(c) == IF c \in LowerSet THEN At(UpperLetters, IndexIn(LowerLetters, c)) ELSE c

Min(S) == CHOOSE x \in S : \A y \in S : x <= y
Max(S) == CHOOSE x \in S : \A y \in S : x >= y

\* the elements of a set of positions, in ascending order
Ascending(S) ==
    [ k \in 1..Cardinality(S) |-> CHOOSE i \in S : Cardinality({ j \in S : j <= i }) = k ]

\* ''.join(parts[a-1:b]), by halves
RECURSIVE ConcatRange(_, _, _)
ConcatRange(parts, a, b) ==
    IF a > b THEN ""
    ELSE IF a = b THEN parts[a]
    ELSE ConcatRange(parts, a, (a + b) \div 2) \o ConcatRange(parts, (a + b) \div 2 + 1, b)

\* ''.join(parts)
Concat(parts) == ConcatRange(parts, 1, Len(parts))

\* str.lower()
LowerStr(s) == Concat([i \in 1..Len(s) |-> LowerChar(At(s, i))])

\* the title case of a character
TitleChar(c) == IF c = SharpS THEN "Ss" ELSE UpperChar(c)

\* str.title(): a letter is title-cased after a non-letter, lower-cased after a letter
TitleStr(s) ==
    Concat([i \in 1..Len(s) |->
              IF IsAlpha(At(s, i - 1)) THEN LowerChar(At(s, i)) ELSE TitleChar(At(s, i))])

\* s[i:] (1-based i)
Suffix(s, i) == IF i > Len(s) THEN "" ELSE SubSeq(s, i, Len(s))

\* s[:i-1] (the characters before position i)
Prefix(s, i) == IF i <= 1 THEN "" ELSE SubSeq(s, 1, Min({i - 1, Len(s)}))

\* s.startswith(lit, i-1)
StartsWithAt(s, i, lit) ==
    /\ i >= 1
    /\ i + Len(lit) - 1 <= Len(s)
    /\ SubSeq(s, i, i + Len(lit) - 1) = lit

\* the same, ignoring letter case (re.I); lit is lower case
StartsWithAtI(s, i, lit) ==
    /\ i >= 1
    /\ i + Len(lit) - 1 <= Len(s)
    /\ LowerStr(SubSeq(s, i, i + Len(lit) - 1)) = lit

\* sub in s
Contains(s, sub) == \E i \in 1..(Len(s) - Len(sub) + 1) : StartsWithAt(s, i, sub)

\* first position >= i whose character is outside the class C (Len(s)+1 if none):
\* where a greedy run [C]* that starts at i ends
RunEnd(s, i, C) ==
    LET First(out) == IF out = {} THEN Max({i, Len(s) + 1}) ELSE Min(out)
    IN  First({ j \in i..Len(s) : At(s, j) \notin C })

\* str.strip(chars)
StripChars(s, C) ==
    LET Kept(keep) == IF keep = {} THEN "" ELSE SubSeq(s, Min(keep), Max(keep))
    IN  Kept({ j \in 1..Len(s) : At(s, j) \notin C })

\* str.strip()
Strip(s) == StripChars(s, SpaceSet)

\* the characters of s at the positions of K, in order
CharsAt(s, K) == Concat([i \in 1..Len(s) |-> IF i \in K THEN At(s, i) ELSE ""])

\* sum(c.isalpha() for c in s)
LetterCount(s) == Cardinality({ i \in 1..Len(s) : IsAlpha(At(s, i)) })

\* str.split(): the maximal runs of non-whitespace characters
RECURSIVE SplitFrom(_, _)
SplitFrom(s, i) ==
    LET Word(b, e) == << SubSeq(s, b, e - 1) >> \o SplitFrom(s, e)
        Words(b) ==
            IF b > Len(s) THEN << >>
            ELSE Word(b, Min({ j \in b..(Len(s) + 1) :
                                 j = Len(s) + 1 \/ IsSpace(At(s, j)) }))
    IN  Words(RunEnd(s, i, SpaceSet))

Split(s) == SplitFrom(s, 1)

\* str.split('\n')
RECURSIVE SplitLinesFrom(_, _)
SplitLinesFrom(s, i) ==
    LET Line(n) == << (IF n = i THEN "" ELSE SubSeq(s, i, n - 1)) >>
                   \o SplitLinesFrom(s, n + 1)
        Lines(nl) == IF nl = {} THEN << Suffix(s, i) >> ELSE Line(Min(nl))
    IN  Lines({ j \in i..Len(s) : At(s, j) = "\n" })

SplitLines(s) == SplitLinesFrom(s, 1)

\* sep.join(parts)
RECURSIVE Join(_, _)
Join(sep, parts) ==
    IF parts = << >> THEN ""
    ELSE IF Len(parts) = 1 THEN parts[1]
    ELSE parts[1] \o sep \o Join(sep, Tail(parts))

\* int(s) for a string of decimal digits
RECURSIVE ParseInt(_)
ParseInt(s) ==
    IF s = "" THEN 0
    ELSE 10 * ParseInt(Prefix(s, Len(s))) + (IndexIn(DigitChars, At(s, Len(s))) - 1)

(***************************************************************************)
(* The document: a candidate element and what BeautifulSoup reads off it.  *)
(***************************************************************************)
\* element.get_text(): the strings of the element, joined without separator
RECURSIVE GetText(_)
GetText(element) ==
    IF element = << >> THEN "" ELSE Head(element).text \o GetText(Tail(element))

\* child.get_text(strip=True) of a leaf child
StrippedText(child) == Strip(child.text)

\* element.stripped_strings: the non-empty stripped strings, in document order
RECURSIVE StrippedStrings(_)
StrippedStrings(element) ==
    IF element = << >> THEN << >>
    ELSE (IF StrippedText(Head(element)) = "" THEN << >>
          ELSE << StrippedText(Head(element)) >>)
         \o StrippedStrings(Tail(element))

\* element.find_all(tag): positions of the children with that tag, document order
FindAll(element, tag) == { i \in 1..Len(element) : element[i].tag = tag }

(***************************************************************************)
(* Currency amounts:  ₹\s*\d+  and  ₹\s*(\d+(?:\.\d+)?)                     *)
(***************************************************************************)
\* where \d+(?:\.\d+)? ends when it starts at a (a itself when no digit is there)
AmountEnd(s, a) ==
    LET Fraction(d) == IF d > a /\ At(s, d) = "." /\ IsDigit(At(s, d + 1))
                       THEN RunEnd(s, d + 1, DigitSet)
                       ELSE d
    IN  Fraction(RunEnd(s, a, DigitSet))

\* ₹\s*\d+ matches at position i
CurrencyAt(s, i) ==
    /\ At(s, i) = "₹"
    /\ IsDigit(At(s, RunEnd(s, i + 1, SpaceSet)))

\* re.search(r'₹\s*\d+', s)
HasCurrency(s) == \E i \in 1..Len(s) : CurrencyAt(s, i)

\* the match of ₹\s*(\d+(?:\.\d+)?) at i: its group 1 and the position after it
CurrencyMatch(s, i) ==
    LET Match(a, b) == [start |-> i, end |-> b, amount |-> SubSeq(s, a, b - 1)]
        Amount(a) == Match(a, AmountEnd(s, a))
    IN  Amount(RunEnd(s, i + 1, SpaceSet))

\* any(char.isalpha() for char in s)
AnyAlpha(s) == \E i \in 1..Len(s) : IsAlpha(At(s, i))

\* ^\d+\s*(u1|u2|...) with re.I matches at the start of s
StartsWithIntUnit(s, units) ==
    LET Unit(w) == \E u \in units : StartsWithAtI(s, w, u)
        Digits(d) == d > 1 /\ Unit(RunEnd(s, d, SpaceSet))
    IN  Digits(RunEnd(s, 1, DigitSet))

\* ^\d+(\.\d+)?\s*(u1|u2|...) with re.I matches at the start of s
StartsWithQtyUnit(s, units) ==
    LET Unit(w) == \E u \in units : StartsWithAtI(s, w, u)
        Digits(d) == d > 1 /\ Unit(RunEnd(s, d, SpaceSet))
    IN  Digits(AmountEnd(s, 1))

(***************************************************************************)
(* HyperpureScraper._extract_product_info: the name, four strategies.      *)
(***************************************************************************)
NameTags == << "h1", "h2", "h3", "h4", "h5", "h6", "p", "span", "div" >>

\* the acceptance test of strategy 1
NameAccepted1(text) ==
    /\ 5 < Len(text) /\ Len(text) < 100
    /\ ~ StartsWithAt(text, 1, "₹")
    /\ ~ StartsWithIntUnit(text, {"kg", "gm", "pc"})
    /\ LowerStr(text) \notin {"add", "added", "view", "buy"}
    /\ AnyAlpha(text)

\* a faulty variant of NameStrategy1: the first accepted element in document order
NameStrategy1DocumentOrder(element) ==
    LET First(accepted) == IF accepted = {} THEN ""
                           ELSE StrippedText(element[Min(accepted)])
    IN  First({ i \in 1..Len(element) :
                  /\ \E k \in 1..Len(NameTags) : element[i].tag = NameTags[k]
                  /\ NameAccepted1(StrippedText(element[i])) })

\* Strategy 1: tag by tag, the first accepted element of the first tag that has one
NameStrategy1(element) ==
    LET hits(tag) == { i \in FindAll(element, tag) : NameAccepted1(StrippedText(element[i])) }
        First(tags) == IF tags = {} THEN ""
                       ELSE StrippedText(element[Min(hits(NameTags[Min(tags)]))])
    IN  First({ k \in 1..Len(NameTags) : hits(NameTags[k]) # {} })

\* lines = [line.strip() for line in element_text.split('\n') if line.strip()]
NonEmptyLines(text) ==
    LET Stripped(raw) == [k \in 1..Len(raw) |-> Strip(raw[k])]
    IN  SelectSeq(Stripped(SplitLines(text)), LAMBDA l : l # "")

\* Strategy 2: the nearest acceptable line above the first price line that has one
NameStrategy2(element) ==
    LET ok(line) == /\ 5 < Len(line) /\ Len(line) < 100
                    /\ ~ IsDigit(At(line, 1))
                    /\ AnyAlpha(line)
        Above(lines, found) ==
            IF found = {} THEN ""
            ELSE lines[Max({ j \in 1..(Min(found) - 1) : ok(lines[j]) })]
        Search(lines) ==
            Above(lines, { i \in 1..Len(lines) :
                             HasCurrency(lines[i]) /\ \E j \in 1..(i - 1) : ok(lines[j]) })
    IN  Search(NonEmptyLines(GetText(element)))

\* Strategy 3: the longest text node that is neither a price nor a quantity
NameStrategy3(element) ==
    LET ok(text) == /\ 10 < Len(text) /\ Len(text) < 100
                    /\ ~ HasCurrency(text)
                    /\ ~ StartsWithQtyUnit(text, {"kg", "gm", "g", "pc", "piece"})
                    /\ AnyAlpha(text)
        Longest(texts, cands) ==
            IF cands = {} THEN ""
            ELSE texts[Min({ i \in cands :
                              \A j \in cands : Len(texts[j]) <= Len(texts[i]) })]
        Search(texts) == Longest(texts, { i \in 1..Len(texts) : ok(texts[i]) })
    IN  Search([i \in 1..Len(element) |-> Strip(element[i].text)])

\* Strategy 4: the first stripped string with a letter that is no quantity and no price
NameStrategy4(element) ==
    LET ok(text) == /\ ~ StartsWithQtyUnit(text, {"kg", "gm", "g", "pc"})
                    /\ ~ StartsWithAt(text, 1, "₹")
                    /\ Len(text) > 4
                    /\ AnyAlpha(text)
        First(strings, hits) == IF hits = {} THEN "" ELSE strings[Min(hits)]
        Search(strings) == First(strings, { i \in 1..Len(strings) : ok(strings[i]) })
    IN  Search(StrippedStrings(element))

\* the name found by the first strategy that finds one ("" stands for None)
HpFindName(element) ==
    LET Else(name, other) == IF name # "" THEN name ELSE other
    IN  Else(NameStrategy1(element),
             Else(NameStrategy2(element),
                  Else(NameStrategy3(element), NameStrategy4(element))))

(***************************************************************************)
(* HyperpureScraper._extract_product_info: the prices.                     *)
(***************************************************************************)
\* the unit words of bulk_pricing_patterns, in the order of the list
BulkUnits == << "pc", "kg", "gm", "piece" >>

\* ₹\s*(\d+(?:\.\d+)?)\s*/\s*<unit>\s+for\s+(\d+)\s*<unit>s?\+  (re.I) at position i
BulkMatchAt(s, i, unit) ==
    LET Plus(a, b, h, k, l, m) ==
            [ok    |-> /\ StartsWithAtI(s, l, unit)
                       /\ \/ At(s, m) = "+"
                          \/ LowerChar(At(s, m)) = "s" /\ At(s, m + 1) = "+",
             price |-> SubSeq(s, a, b - 1),
             qty   |-> SubSeq(s, h, k - 1)]
        Unit2(a, b, h, k, l) == Plus(a, b, h, k, l, l + Len(unit))
        Qty(a, b, h, k) ==
            IF k > h THEN Unit2(a, b, h, k, RunEnd(s, k, SpaceSet))
            ELSE [ok |-> FALSE, price |-> "", qty |-> ""]
        For(a, b, g, h) ==
            IF h > g THEN Qty(a, b, h, RunEnd(s, h, DigitSet))
            ELSE [ok |-> FALSE, price |-> "", qty |-> ""]
        Gap(a, b, e, f) ==
            IF f > e /\ StartsWithAtI(s, f, "for")
            THEN For(a, b, f + 3, RunEnd(s, f + 3, SpaceSet))
            ELSE [ok |-> FALSE, price |-> "", qty |-> ""]
        Unit1(a, b, d) ==
            IF StartsWithAtI(s, d, unit)
            THEN Gap(a, b, d + Len(unit), RunEnd(s, d + Len(unit), SpaceSet))
            ELSE [ok |-> FALSE, price |-> "", qty |-> ""]
        Slash(a, b, c) ==
            IF At(s, c) = "/" THEN Unit1(a, b, RunEnd(s, c + 1, SpaceSet))
            ELSE [ok |-> FALSE, price |-> "", qty |-> ""]
        Amount(a, b) ==
            IF b > a THEN Slash(a, b, RunEnd(s, b, SpaceSet))
            ELSE [ok |-> FALSE, price |-> "", qty |-> ""]
        Rupee(a) == Amount(a, AmountEnd(s, a))
    IN  IF At(s, i) = "₹" THEN Rupee(RunEnd(s, i + 1, SpaceSet))
        ELSE [ok |-> FALSE, price |-> "", qty |-> ""]

\* re.findall(pattern, element_text, re.I): the (price, qty) pairs, from left to
\* right.  A match holds one ₹, its first character, so no two matches overlap.
BulkFindAll(s, unit) ==
    LET Groups(m) == [price |-> m.price, qty |-> m.qty]
        Found(at) == [ k \in 1..Len(at) |-> Groups(BulkMatchAt(s, at[k], unit)) ]
    IN  Found(Ascending({ i \in 1..Len(s) : BulkMatchAt(s, i, unit).ok }))

\* bulk_prices: the matches of the four patterns, pattern after pattern
RECURSIVE BulkPricesFrom(_, _)
BulkPricesFrom(s, k) ==
    IF k > Len(BulkUnits) THEN << >>
    ELSE BulkFindAll(s, BulkUnits[k]) \o BulkPricesFrom(s, k + 1)

BulkPrices(s) == BulkPricesFrom(s, 1)

\* one step of sorted(..., key=lambda x: int(x[1]), reverse=True): x goes after
\* every tier already placed whose quantity is not smaller (the sort is stable)
InsertByQtyDesc(sorted, x) ==
    LET After(n) == SubSeq(sorted, 1, n) \o << x >> \o SubSeq(sorted, n + 1, Len(sorted))
        Last(ahead) == After(IF ahead = {} THEN 0 ELSE Max(ahead))
    IN  Last({ j \in 1..Len(sorted) : ParseInt(sorted[j].qty) >= ParseInt(x.qty) })

RECURSIVE SortByQtyDesc(_, _)
SortByQtyDesc(sorted, rest) ==
    IF rest = << >> THEN sorted
    ELSE SortByQtyDesc(InsertByQtyDesc(sorted, Head(rest)), Tail(rest))

\* a faulty variant of BulkPricesSorted: the tiers stay in the order they were found
BulkPricesUnsorted(s) == BulkPrices(s)

\* bulk_prices_sorted
BulkPricesSorted(s) == SortByQtyDesc(<< >>, BulkPrices(s))

\* the display string of one bulk tier; the unit label is read off the whole text
BulkTierString(tier, element_text) ==
    LET Label(lower) ==
            IF Contains(lower, "pc") \/ Contains(lower, "piece")
            THEN "₹" \o tier.price \o "/pc for " \o tier.qty \o "pcs+"
            ELSE IF Contains(lower, "kg")
            THEN "₹" \o tier.price \o "/kg for " \o tier.qty \o "kg+"
            ELSE "₹" \o tier.price \o " for " \o tier.qty \o "+"
    IN  Label(LowerStr(element_text))

\* price_matches: the positions where ₹\s*(\d+(?:\.\d+)?) matches
PriceMatches(s) == { i \in 1..Len(s) : CurrencyAt(s, i) }

\* width of the context window on each side of the base price
ContextWindow == 50

\* context = element_text[max(0, start-50):end+50] around the last price match
BasePriceContext(s) ==
    LET Around(m) == SubSeq(s, Max({1, m.start - ContextWindow}),
                               Min({Len(s), m.end - 1 + ContextWindow}))
    IN  Around(CurrencyMatch(s, Max(PriceMatches(s))))

UnitTypes == {"kg", "pc", "gm", "piece"}

\* the unit word (as written) of the alternation (kg|pc|gm|piece), re.I, at position i
UnitTypeAt(s, i) ==
    LET Word(len) == SubSeq(s, i, i + len - 1)
    IN  Word(Min({ Len(u) : u \in { v \in UnitTypes : StartsWithAtI(s, i, v) } }))

HasUnitTypeAt(s, i) == \E u \in UnitTypes : StartsWithAtI(s, i, u)

\* main_unit_type: /(kg|pc|gm|piece) in the context, else \s(kg|pc|gm|piece)\s
MainUnitType(s) ==
    LET First(ctx, slash, spaced) ==
            IF slash # {} THEN UnitTypeAt(ctx, Min(slash) + 1)
            ELSE IF spaced # {} THEN UnitTypeAt(ctx, Min(spaced) + 1)
            ELSE ""
        Search(ctx) ==
            First(ctx,
                  { i \in 1..Len(ctx) : At(ctx, i) = "/" /\ HasUnitTypeAt(ctx, i + 1) },
                  { i \in 1..Len(ctx) :
                      /\ IsSpace(At(ctx, i))
                      /\ HasUnitTypeAt(ctx, i + 1)
                      /\ IsSpace(At(ctx, i + 1 + Len(UnitTypeAt(ctx, i + 1)))) })
    IN  Search(BasePriceContext(s))

\* a faulty variant of BaseTier: the base price is the first price of the text
BaseTierFirst(s) ==
    LET Tier(main_price, main_unit_type) ==
            IF main_unit_type # ""
            THEN << "Base: ₹" \o main_price \o "/" \o main_unit_type >>
            ELSE << "Base: ₹" \o main_price >>
    IN  IF PriceMatches(s) = {} THEN << >>
        ELSE Tier(CurrencyMatch(s, Min(PriceMatches(s))).amount, MainUnitType(s))

\* the base tier: "Base: ₹<main_price>[/<main_unit_type>]", none without a price
BaseTier(s) ==
    LET Tier(main_price, main_unit_type) ==
            IF main_unit_type # ""
            THEN << "Base: ₹" \o main_price \o "/" \o main_unit_type >>
            ELSE << "Base: ₹" \o main_price >>
    IN  IF PriceMatches(s) = {} THEN << >>
        ELSE Tier(CurrencyMatch(s, Max(PriceMatches(s))).amount, MainUnitType(s))

\* pricing_info
PricingInfo(s) ==
    LET Bulk(sorted) == [k \in 1..Len(sorted) |-> BulkTierString(sorted[k], s)]
        Fallback(info) ==
            IF info # << >> THEN info
            ELSE IF PriceMatches(s) # {}
            THEN << "₹" \o CurrencyMatch(s, Min(PriceMatches(s))).amount >>
            ELSE << >>
    IN  Fallback(Bulk(BulkPricesSorted(s)) \o BaseTier(s))

(***************************************************************************)
(* The unit of a record.                                                   *)
(***************************************************************************)
\* length of the first alternative of alts (in order) that matches at w, 0 if none
FirstAltLen(s, w, alts) ==
    LET First(ks) == IF ks = {} THEN 0 ELSE Len(alts[Min(ks)])
    IN  First({ k \in 1..Len(alts) : StartsWithAtI(s, w, alts[k]) })

\* base_unit: (\d+(?:\.\d+)?)\s*(kg|gm|g|pc|piece|pieces) searched in the name,
\* rendered "<group 1> <group 2>"; "" when there is no match
BaseUnit(name) ==
    LET alts == << "kg", "gm", "g", "pc", "piece", "pieces" >>
        after(i) == RunEnd(name, AmountEnd(name, i), SpaceSet)
        Groups(i, b, w) ==
            SubSeq(name, i, b - 1) \o " "
            \o SubSeq(name, w, w + FirstAltLen(name, w, alts) - 1)
        Match(i) == Groups(i, AmountEnd(name, i), after(i))
        First(hits) == IF hits = {} THEN "" ELSE Match(Min(hits))
    IN  First({ i \in 1..Len(name) :
                  IsDigit(At(name, i)) /\ FirstAltLen(name, after(i), alts) > 0 })

\* HyperpureScraper's unit_patterns: what precedes the unit word, and the unit words
HpUnitPatterns ==
    << [lead |-> "int",  alts |-> << "kg", "kgs", "kilogram" >>],
       [lead |-> "int",  alts |-> << "g", "gm", "gram", "gms" >>],
       [lead |-> "int",  alts |-> << "pc", "pcs", "piece", "pieces" >>],
       [lead |-> "int",  alts |-> << "ltr", "litre", "liter", "ml" >>],
       [lead |-> "per",  alts |-> << "kg", "pc", "piece", "unit" >>],
       [lead |-> "int",  alts |-> << "dozen" >>],
       [lead |-> "dec",  alts |-> << "kg", "gm", "g", "pc" >>] >>

\* WholesaleMandiScraper's unit_patterns
WmUnitPatterns ==
    << [lead |-> "int",   alts |-> << "kg", "kgs", "kilogram" >>],
       [lead |-> "int",   alts |-> << "g", "gm", "gram", "gms" >>],
       [lead |-> "int",   alts |-> << "pc", "pcs", "piece", "pieces" >>],
       [lead |-> "int",   alts |-> << "ltr", "litre", "ml" >>],
       [lead |-> "per",   alts |-> << "kg", "pc", "piece", "unit" >>],
       [lead |-> "slash", alts |-> << "kg", "gm", "pc", "piece", "unit" >>] >>

\* where the unit word must start when the pattern's lead matches at i, 0 if it does not:
\* \d+\s* ("int"), per\s+ ("per"), \d+\.?\d*\s* ("dec"), /\s* ("slash")
LeadEnd(s, i, lead) ==
    LET IntLead(d) == IF d > i THEN RunEnd(s, d, SpaceSet) ELSE 0
        PerLead(w) == IF StartsWithAtI(s, i, "per") /\ w > i + 3 THEN w ELSE 0
        DecLead(d) ==
            IF d > i
            THEN RunEnd(s, IF At(s, d) = "." THEN RunEnd(s, d + 1, DigitSet) ELSE d,
                        SpaceSet)
            ELSE 0
    IN  CASE lead = "int" -> IntLead(RunEnd(s, i, DigitSet))
          [] lead = "per" -> PerLead(RunEnd(s, i + 3, SpaceSet))
          [] lead = "dec" -> DecLead(RunEnd(s, i, DigitSet))
          [] lead = "slash" -> IF At(s, i) = "/" THEN RunEnd(s, i + 1, SpaceSet) ELSE 0

\* group 1 of the pattern's match at i, "" when it does not match there
UnitMatchAt(s, i, p) ==
    LET Group(w, n) == IF n = 0 THEN ""
                       ELSE SubSeq(s, IF p.lead = "slash" THEN w ELSE i, w + n - 1)
        Word(w) == Group(w, IF w = 0 THEN 0 ELSE FirstAltLen(s, w, p.alts))
    IN  Word(LeadEnd(s, i, p.lead))

\* re.search(pattern, text, re.I).group(1).strip(), "" when there is no match
UnitSearch(s, p) ==
    LET First(hits) == IF hits = {} THEN "" ELSE Strip(UnitMatchAt(s, Min(hits), p))
    IN  First({ i \in 1..Len(s) : UnitMatchAt(s, i, p) # "" })

\* the first pattern of the list that matches decides
UnitFromText(s, patterns) ==
    LET First(units, ks) == IF ks = {} THEN "" ELSE units[Min(ks)]
        Pick(units) == First(units, { k \in 1..Len(units) : units[k] # "" })
    IN  Pick([k \in 1..Len(patterns) |-> UnitSearch(s, patterns[k])])

\* unit or 'N/A'
HpUnit(name, element_text) ==
    LET Else(unit, other) == IF unit # "" THEN unit ELSE other
    IN  Else(Else(BaseUnit(name), UnitFromText(element_text, HpUnitPatterns)), "N/A")

(***************************************************************************)
(* HyperpureScraper._extract_product_info: name clean-up and validation.   *)
(***************************************************************************)
\* re.sub(r'₹.*', '', name): every ₹ goes, with what follows it on its line
RemoveCurrencyTail(name) ==
    CharsAt(name, { i \in 1..Len(name) :
                      ~ \E j \in 1..i : /\ At(name, j) = "₹"
                                        /\ \A k \in (j + 1)..i : At(name, k) # "\n" })

\* re.sub(r'\s+', ' ', name): every run of whitespace becomes one blank (the blank
\* stands where the run starts)
CollapseWhitespace(s) ==
    Concat([i \in 1..Len(s) |->
              IF ~ IsSpace(At(s, i)) THEN At(s, i)
              ELSE IF IsSpace(At(s, i - 1)) THEN "" ELSE " "])

\* the alternation of the noise-word pattern, in its order
NoiseWords == << "add", "added", "view", "buy", "select", "choose" >>

\* length of the match of \b(add|added|view|buy|select|choose)\b (re.I) at i, 0 if none
NoiseMatchLen(s, i) ==
    LET First(ks) == IF ks = {} THEN 0 ELSE Len(NoiseWords[Min(ks)])
    IN  IF IsWordChar(At(s, i - 1)) THEN 0
        ELSE First({ k \in 1..Len(NoiseWords) :
                       /\ StartsWithAtI(s, i, NoiseWords[k])
                       /\ ~ IsWordChar(At(s, i + Len(NoiseWords[k]))) })

\* re.sub(r'\b(add|added|view|buy|select|choose)\b', '', name, flags=re.I): a
\* character goes when a match covers it.  A match consists of word characters and
\* starts after a non-word character, so no match starts inside or right after
\* another one and the scan from the left finds every one of them.
RemoveNoise(s) ==
    CharsAt(s, { i \in 1..Len(s) : ~ \E j \in 1..i : NoiseMatchLen(s, j) > i - j })

\* lines 479-483: the name as it is validated and returned
HpCleanName(name) ==
    Strip(RemoveNoise(CollapseWhitespace(Strip(RemoveCurrencyTail(name)))))

\* only_qty_pattern: ^[\d\.\s]+(kg|gm|g|pc|piece|pieces|pack|packs)$  (re.I)
OnlyQtyPattern(name) ==
    \E k \in 1..(Len(name) - 1) :
        /\ \A j \in 1..k : At(name, j) \in DigitSet \cup SpaceSet \cup {"."}
        /\ LowerStr(Suffix(name, k + 1)) \in
               {"kg", "gm", "g", "pc", "piece", "pieces", "pack", "packs"}

\* starts_qty_pattern: ^\d+(\.\d+)?\s*(kg|gm|g|pc|pack)  (re.I)
StartsQtyPattern(name) == StartsWithQtyUnit(name, {"kg", "gm", "g", "pc", "pack"})

\* ^(pack|packs|\d+\s*pack)$  (re.I)
PackPattern(name) ==
    \/ LowerStr(name) \in {"pack", "packs"}
    \/ LET Digits(d) ==
               d > 1 /\ LowerStr(Suffix(name, RunEnd(name, d, SpaceSet))) = "pack"
       IN  Digits(RunEnd(name, 1, DigitSet))

\* a faulty variant of HpRejected: the pack rule (lines 509-511) is missing
HpRejectedNoPack(name) ==
    \/ OnlyQtyPattern(name)
    \/ StartsQtyPattern(name)
    \/ Len(name) < 5
    \/ LetterCount(name) < 3
    \/ ~ (\E i \in 1..Len(name) : IsAlnum(At(name, i)))

\* the validation of lines 485-511: TRUE when the cleaned name is rejected
HpRejected(name) ==
    \/ OnlyQtyPattern(name)
    \/ StartsQtyPattern(name)
    \/ Len(name) < 5
    \/ LetterCount(name) < 3
    \/ ~ (\E i \in 1..Len(name) : IsAlnum(At(name, i)))
    \/ PackPattern(name)

\* HyperpureScraper._extract_product_info(element): the record, or None
HpExtractProductInfo(element) ==
    LET Validated(element_text, name, pricing_info, cleaned) ==
            IF HpRejected(cleaned) THEN None
            ELSE [name  |-> cleaned,
                  price |-> Join(" | ", pricing_info),
                  unit  |-> HpUnit(name, element_text)]
        Extracted(element_text, name, pricing_info) ==
            IF name # "" /\ pricing_info # << >>
            THEN Validated(element_text, name, pricing_info, HpCleanName(name))
            ELSE None
        Priced(element_text, name) == Extracted(element_text, name, PricingInfo(element_text))
    IN  Priced(GetText(element), HpFindName(element))

(***************************************************************************)
(* WholesaleMandiScraper._extract_product_info.                            *)
(***************************************************************************)
WmHeadingTags == << "h1", "h2", "h3", "h4", "h5" >>

\* lines 656-661: the text of the first heading (by tag, then by position) longer
\* than 2 characters; failing that the text of the last heading found; "" if none
RECURSIVE WmHeadingName(_, _, _)
WmHeadingName(element, k, name) ==
    IF k > Len(WmHeadingTags) THEN name
    ELSE LET Text(text) == IF Len(text) > 2 THEN text
                           ELSE WmHeadingName(element, k + 1, text)
             First(found) == IF found = {} THEN WmHeadingName(element, k + 1, name)
                             ELSE Text(StrippedText(element[Min(found)]))
         IN  First(FindAll(element, WmHeadingTags[k]))

\* element.find(class_=re.compile(r'(title|name)', re.I))
WmClassName(element) ==
    LET First(found) == IF found = {} THEN "" ELSE StrippedText(element[Min(found)])
    IN  First({ i \in 1..Len(element) :
                  \/ Contains(LowerStr(element[i].cls), "title")
                  \/ Contains(LowerStr(element[i].cls), "name") })

\* lines 668-673: the first stripped string of 6..99 characters that starts with
\* neither ₹ nor Rs
WmStringName(element) ==
    LET ok(text) == /\ 5 < Len(text) /\ Len(text) < 100
                    /\ ~ StartsWithAt(text, 1, "₹")
                    /\ ~ StartsWithAt(text, 1, "Rs")
        First(strings, hits) == IF hits = {} THEN "" ELSE strings[Min(hits)]
        Search(strings) == First(strings, { i \in 1..Len(strings) : ok(strings[i]) })
    IN  Search(StrippedStrings(element))

WmFindName(element) ==
    LET Else(name, other) == IF name # "" THEN name ELSE other
    IN  Else(WmHeadingName(element, 1, ""),
             Else(WmClassName(element), WmStringName(element)))

\* where (\d+(?:,\d+)*(?:\.\d+)?) ends when it starts at a (a when no digit is there)
RECURSIVE CommaGroupsEnd(_, _)
CommaGroupsEnd(s, d) ==
    IF At(s, d) = "," /\ IsDigit(At(s, d + 1))
    THEN CommaGroupsEnd(s, RunEnd(s, d + 1, DigitSet))
    ELSE d

WmAmountEnd(s, a) ==
    LET Fraction(c) == IF At(s, c) = "." /\ IsDigit(At(s, c + 1))
                       THEN RunEnd(s, c + 1, DigitSet)
                       ELSE c
        Digits(d) == IF d = a THEN a ELSE Fraction(CommaGroupsEnd(s, d))
    IN  Digits(RunEnd(s, a, DigitSet))

\* where the amount must start when the currency mark of price pattern k is at i, 0 if
\* it is not there:  ₹\s*   Rs\.?\s*   INR\s*   (case-sensitive)
WmMarkEnd(s, i, k) ==
    CASE k = 1 -> IF At(s, i) = "₹" THEN RunEnd(s, i + 1, SpaceSet) ELSE 0
      [] k = 2 -> IF StartsWithAt(s, i, "Rs")
                  THEN RunEnd(s, IF At(s, i + 2) = "." THEN i + 3 ELSE i + 2, SpaceSet)
                  ELSE 0
      [] k = 3 -> IF StartsWithAt(s, i, "INR") THEN RunEnd(s, i + 3, SpaceSet) ELSE 0

\* re.search(price_patterns[k], text_content).group(1), "" when there is no match
WmPriceSearch(s, k) ==
    LET Digit(a) == a > 0 /\ IsDigit(At(s, a))
        Amount(a) == SubSeq(s, a, WmAmountEnd(s, a) - 1)
        First(hits) == IF hits = {} THEN "" ELSE Amount(WmMarkEnd(s, Min(hits), k))
    IN  First({ i \in 1..Len(s) : Digit(WmMarkEnd(s, i, k)) })

\* price: "₹" and the amount of the first pattern that matches; "" stands for None
WmPrice(s) ==
    LET First(amounts, ks) == IF ks = {} THEN "" ELSE "₹" \o amounts[Min(ks)]
        Pick(amounts) == First(amounts, { k \in 1..3 : amounts[k] # "" })
    IN  Pick([k \in 1..3 |-> WmPriceSearch(s, k)])

\* re.sub(r'₹.*|Rs\.?.*', '', name): every ₹ and every Rs goes, with the rest of its line
WmRemovePriceTail(name) ==
    CharsAt(name, { i \in 1..Len(name) :
                      ~ \E j \in 1..i : /\ At(name, j) = "₹" \/ StartsWithAt(name, j, "Rs")
                                        /\ \A k \in (j + 1)..i : At(name, k) # "\n" })

\* lines 709-710
WmCleanName(name) == Join(" ", Split(Strip(WmRemovePriceTail(name))))

\* WholesaleMandiScraper._extract_product_info(element): the record, or None
WmExtractProductInfo(element) ==
    LET Record(name, price, unit) ==
            IF name # "" /\ price # ""
            THEN [name  |-> WmCleanName(name),
                  price |-> price,
                  unit  |-> IF unit # "" THEN unit ELSE "N/A"]
            ELSE None
        Extracted(text_content, name) ==
            Record(name, WmPrice(text_content), UnitFromText(text_content, WmUnitPatterns))
    IN  Extracted(GetText(element), WmFindName(element))

(***************************************************************************)
(* extract_base_item_name.                                                 *)
(***************************************************************************)
\* base_items, in the order of the list
base_items ==
    << "cauliflower", "carrot", "potato", "tomato", "onion", "cabbage",
       "brinjal", "eggplant", "capsicum", "bell pepper", "cucumber",
       "bottle gourd", "ridge gourd", "bitter gourd", "pumpkin", "beans",
       "okra", "ladyfinger", "spinach", "coriander", "mint", "curry leaves",
       "ginger", "garlic", "beetroot", "radish", "turnip", "green chilli",
       "red chilli", "drumstick", "cluster beans", "french beans", "peas",
       "sweet corn", "baby corn", "mushroom", "lettuce", "broccoli",
       "zucchini", "celery", "leek", "spring onion", "green onion",
       "fenugreek", "methi", "palak", "dhaniya", "pudina", "bhindi",
       "karela", "lauki", "tinda", "parwal", "arbi", "colocasia", "yam",
       "sweet potato", "tapioca", "apple", "banana", "orange", "mango",
       "grapes", "watermelon", "papaya", "pineapple", "pomegranate", "guava",
       "lemon", "lime", "kiwi", "strawberry", "blueberry", "cherry", "peach",
       "plum", "apricot", "pear", "dragon fruit", "passion fruit", "avocado",
       "coconut", "jackfruit", "melon", "muskmelon", "cantaloupe", "litchi",
       "lychee", "custard apple", "sapota", "chikoo", "fig", "date",
       "raisin", "blackberry", "raspberry", "mosambi", "sweet lime",
       "grapefruit" >>

descriptors ==
    {"fresh", "organic", "premium", "frozen", "combo", "pack", "big", "small",
     "medium", "large"}

\* the characters ( ) , that word.strip('(),') removes
WordTrim == {"(", ")", ","}

\* a faulty variant of extract_base_item_name: of the dictionary terms found in the
\* name the longest is returned, not the first of the list
extract_base_item_name_longest(item_name) ==
    LET Meaningful(word_lower) == word_lower \notin descriptors /\ Len(word_lower) > 3
        FirstWord(words, meaningful) ==
            IF meaningful # {} THEN TitleStr(StripChars(words[Min(meaningful)], WordTrim))
            ELSE "Ungrouped"
        Words(words) ==
            FirstWord(words, { i \in 1..Len(words) :
                                 Meaningful(StripChars(LowerStr(words[i]), WordTrim)) })
        Longest(found) ==
            CHOOSE k \in found : \A j \in found :
                \/ Len(base_items[j]) < Len(base_items[k])
                \/ Len(base_items[j]) = Len(base_items[k]) /\ k <= j
        FirstItem(found) == IF found # {} THEN TitleStr(base_items[Longest(found)])
                            ELSE Words(Split(item_name))
        Items(name_lower) ==
            FirstItem({ k \in 1..Len(base_items) : Contains(name_lower, base_items[k]) })
    IN  IF item_name = "" THEN "Ungrouped" ELSE Items(LowerStr(item_name))

extract_base_item_name(item_name) ==
    LET Meaningful(word_lower) == word_lower \notin descriptors /\ Len(word_lower) > 3
        FirstWord(words, meaningful) ==
            IF meaningful # {} THEN TitleStr(StripChars(words[Min(meaningful)], WordTrim))
            ELSE "Ungrouped"
        Words(words) ==
            FirstWord(words, { i \in 1..Len(words) :
                                 Meaningful(StripChars(LowerStr(words[i]), WordTrim)) })
        FirstItem(found) == IF found # {} THEN TitleStr(base_items[Min(found)])
                            ELSE Words(Split(item_name))
        Items(name_lower) ==
            FirstItem({ k \in 1..Len(base_items) : Contains(name_lower, base_items[k]) })
    IN  IF item_name = "" THEN "Ungrouped" ELSE Items(LowerStr(item_name))

(***************************************************************************)
(* The pages the two sites serve.  Every candidate is a container of leaf  *)
(* children; the sets list the kinds of candidate a listing page holds:    *)
(* a plain product, the same product in another element, a product whose   *)
(* name differs in case only, a product with bulk tiers, a quantity label  *)
(* without a product name, a product outside the dictionary.               *)
(***************************************************************************)
Node(tag, cls, text) == [tag |-> tag, cls |-> cls, text |-> text]

HpPage ==
    { << Node("h3", "", "Carrot Ooty"), Node("span", "", "₹40/kg") >>,
      << Node("h3", "", "Carrot Ooty"), Node("#text", "", "\n"), Node("span", "", "₹40/kg") >>,
      << Node("h3", "", "carrot ooty"), Node("span", "", "₹40/kg") >>,
      << Node("h3", "", "Watermelon Kiran 1 kg"),
         Node("span", "", "₹56/kg for 9 kgs+ ₹57/kg for 15 kgs+ ₹60/kg") >>,
      << Node("span", "", "0.50 kg"), Node("span", "", "₹12") >>,
      << Node("p", "", "Big Fresh Pack"), Node("span", "", " ₹99 Add") >> }

WmPage ==
    { << Node("h2", "", "Carrot"), Node("span", "price", "Rs. 35 per kg") >>,
      << Node("h2", "", "carrot"), Node("span", "price", "Rs. 35 per kg") >>,
      << Node("div", "product-title", "Tomato | Hybrid"), Node("span", "", "₹1,200 / 40 kg") >>,
      << Node("h2", "", "2 kg"), Node("span", "", "₹40") >>,
      << Node("span", "", "Sold out") >> }

\* TLC evaluates a constant once: the record of every candidate of the pages, and
\* the base item of every name they yield
HpRecordOf == [product \in HpPage |-> HpExtractProductInfo(product)]

WmRecordOf == [product \in WmPage |-> WmExtractProductInfo(product)]

PageNames ==
    { HpRecordOf[p].name : p \in { q \in HpPage : HpRecordOf[q] # None } }
    \cup { WmRecordOf[p].name : p \in { q \in WmPage : WmRecordOf[q] # None } }

BaseItemOf == [name \in PageNames |-> extract_base_item_name(name)]

(***************************************************************************)
(* Data frames: the column labels and the rows, in order.                  *)
(***************************************************************************)
\* pd.DataFrame(columns=['Name', 'Price', 'Unit'])
EmptyFrame == [columns |-> << "Name", "Price", "Unit" >>, rows |-> << >>]

\* df.drop_duplicates(subset=['Name', 'Price'], keep='first')
DropDuplicates(rows) ==
    LET Kept(first) == [ k \in 1..Len(first) |-> rows[first[k]] ]
    IN  Kept(Ascending({ i \in 1..Len(rows) :
                 \A j \in 1..(i - 1) :
                     rows[j].Name # rows[i].Name \/ rows[j].Price # rows[i].Price }))

\* pd.DataFrame(items) with the columns renamed
RenamedRows(items) ==
    [ k \in 1..Len(items) |->
        [Name |-> items[k].name, Price |-> items[k].price, Unit |-> items[k].unit] ]

\* HyperpureScraper._create_dataframe(items, source)
HpCreateDataframe(items) ==
    IF items = << >> THEN EmptyFrame
    ELSE [columns |-> << "Name", "Price", "Unit" >>,
          rows |-> DropDuplicates(RenamedRows(items))]

\* a faulty variant of WmCreateDataframe: the frame is returned without drop_duplicates
WmCreateDataframeKeepAll(items) ==
    IF items = << >> THEN EmptyFrame
    ELSE [columns |-> << "Name", "Price", "Unit" >>, rows |-> RenamedRows(items)]

\* WholesaleMandiScraper._create_dataframe(items, source)
WmCreateDataframe(items) ==
    IF items = << >> THEN EmptyFrame
    ELSE [columns |-> << "Name", "Price", "Unit" >>,
          rows |-> DropDuplicates(RenamedRows(items))]

(***************************************************************************)
(* create_grouped_comparison.                                              *)
(***************************************************************************)
\* the characters in ascending code point order (the order sorted() compares by);
\* the double quote, the backslash and the backquote are left out
CodePoints ==
    "\t\n !#$%&'()*+,-./0123456789:;<=>?@ABCDEFGHIJKLMNOPQRSTUVWXYZ[]^_abcdefghijklmnopqrstuvwxyz{|}~ß₹"

\* a < b for Python strings
StrLess(a, b) ==
    \E i \in 1..(Len(b)) :
        /\ Prefix(a, i) = Prefix(b, i)
        /\ \/ i > Len(a)
           \/ IndexIn(CodePoints, At(a, i)) < IndexIn(CodePoints, At(b, i))

\* a faulty variant of Sorted: the order is descending
RECURSIVE SortedDescending(_)
SortedDescending(S) ==
    IF S = {} THEN << >>
    ELSE LET Rest(greatest) == << greatest >> \o SortedDescending(S \ {greatest})
         IN  Rest(CHOOSE x \in S : \A y \in S : x = y \/ StrLess(y, x))

\* sorted(S) for a set of strings
RECURSIVE Sorted(_)
Sorted(S) ==
    IF S = {} THEN << >>
    ELSE LET Rest(least) == << least >> \o Sorted(S \ {least})
         IN  Rest(CHOOSE x \in S : \A y \in S : x = y \/ StrLess(x, y))

\* df['BaseItem'] = df['Name'].apply(extract_base_item_name): the frame gets the
\* column, in place
WithBaseItem(df) ==
    [columns |-> IF \E k \in 1..Len(df.columns) : df.columns[k] = "BaseItem"
                 THEN df.columns ELSE df.columns \o << "BaseItem" >>,
     rows |-> [ k \in 1..Len(df.rows) |->
                  [Name |-> df.rows[k].Name, Price |-> df.rows[k].Price,
                   Unit |-> df.rows[k].Unit,
                   BaseItem |-> BaseItemOf[df.rows[k].Name]] ]]

\* set(df['BaseItem'].unique())
BaseItems(df) == { df.rows[k].BaseItem : k \in 1..Len(df.rows) }

\* a faulty variant of AllBasesSorted: "Ungrouped" is listed whether or not a record
\* has that key
AllBasesWithUngrouped(hp, wm) ==
    Sorted((BaseItems(hp) \cup BaseItems(wm)) \ {"Ungrouped"}) \o << "Ungrouped" >>

\* all_bases_sorted: the keys but "Ungrouped" in ascending order, then "Ungrouped"
AllBasesSorted(hp, wm) ==
    LET Order(all_bases) ==
            Sorted(all_bases \ {"Ungrouped"})
            \o (IF "Ungrouped" \in all_bases THEN << "Ungrouped" >> ELSE << >>)
    IN  Order(BaseItems(hp) \cup BaseItems(wm))

\* df[df['BaseItem'] == base_item]
ItemsOf(df, base_item) == SelectSeq(df.rows, LAMBDA r : r.BaseItem = base_item)

\* the label of a group header; "[box] " stands for the package emoji (U+1F4E6) and
\* the blank that the code puts before the key
GroupLabel(base_item) == "[box] " \o base_item

HeaderRow(base_item) ==
    [Group |-> GroupLabel(base_item),
     Hyperpure_Name |-> "", Hyperpure_Price |-> "", Hyperpure_Unit |-> "",
     WholesaleMandi_Name |-> "", WholesaleMandi_Price |-> "", WholesaleMandi_Unit |-> "",
     IsGroupHeader |-> TRUE]

\* a faulty variant of ItemRow: the Wholesale Mandi side is read from the last record
\* of the group backwards
ItemRowLastFirst(hp_items_k, wm_items_k, i) ==
    LET Row(j) ==
            [Group |-> "",
             Hyperpure_Name  |-> IF i <= Len(hp_items_k) THEN hp_items_k[i].Name ELSE "",
             Hyperpure_Price |-> IF i <= Len(hp_items_k) THEN hp_items_k[i].Price ELSE "",
             Hyperpure_Unit  |-> IF i <= Len(hp_items_k) THEN hp_items_k[i].Unit ELSE "",
             WholesaleMandi_Name  |-> IF j >= 1 THEN wm_items_k[j].Name ELSE "",
             WholesaleMandi_Price |-> IF j >= 1 THEN wm_items_k[j].Price ELSE "",
             WholesaleMandi_Unit  |-> IF j >= 1 THEN wm_items_k[j].Unit ELSE "",
             IsGroupHeader |-> FALSE]
    IN  Row(Len(wm_items_k) - i + 1)

\* the i-th item row of a group (i counts from 1)
ItemRow(hp_items_k, wm_items_k, i) ==
    [Group |-> "",
     Hyperpure_Name  |-> IF i <= Len(hp_items_k) THEN hp_items_k[i].Name ELSE "",
     Hyperpure_Price |-> IF i <= Len(hp_items_k) THEN hp_items_k[i].Price ELSE "",
     Hyperpure_Unit  |-> IF i <= Len(hp_items_k) THEN hp_items_k[i].Unit ELSE "",
     WholesaleMandi_Name  |-> IF i <= Len(wm_items_k) THEN wm_items_k[i].Name ELSE "",
     WholesaleMandi_Price |-> IF i <= Len(wm_items_k) THEN wm_items_k[i].Price ELSE "",
     WholesaleMandi_Unit  |-> IF i <= Len(wm_items_k) THEN wm_items_k[i].Unit ELSE "",
     IsGroupHeader |-> FALSE]

\* a faulty variant of MaxRows: the Wholesale Mandi side is not counted
MaxRowsFirstSide(hp_items_k, wm_items_k) == Max({Len(hp_items_k), 1})

\* max_rows = max(len(hp_items), len(wm_items), 1)
MaxRows(hp_items_k, wm_items_k) == Max({Len(hp_items_k), Len(wm_items_k), 1})

\* a faulty variant of GroupRows: the loop over the item rows runs once too often
GroupRowsExtraRow(hp, wm, base_item) ==
    LET Rows(hp_items_k, wm_items_k) ==
            << HeaderRow(base_item) >>
            \o [ i \in 1..(MaxRows(hp_items_k, wm_items_k) + 1) |->
                    ItemRow(hp_items_k, wm_items_k, i) ]
    IN  Rows(ItemsOf(hp, base_item), ItemsOf(wm, base_item))

\* the rows of one group: its header, then its item rows
GroupRows(hp, wm, base_item) ==
    LET Rows(hp_items_k, wm_items_k) ==
            << HeaderRow(base_item) >>
            \o [ i \in 1..MaxRows(hp_items_k, wm_items_k) |->
                    ItemRow(hp_items_k, wm_items_k, i) ]
    IN  Rows(ItemsOf(hp, base_item), ItemsOf(wm, base_item))

RECURSIVE TableRows(_, _, _)
TableRows(hp, wm, bases) ==
    IF bases = << >> THEN << >>
    ELSE GroupRows(hp, wm, Head(bases)) \o TableRows(hp, wm, Tail(bases))

\* create_grouped_comparison(hyperpure_df, mandi_df): the rows of the frame returned;
\* hp and wm are the two frames after the BaseItem column was added to them
GroupedComparison(hp, wm) == TableRows(hp, wm, AllBasesSorted(hp, wm))

(***************************************************************************)
(* main(): Hyperpure, then Wholesale Mandi, then the grouped comparison.   *)
(***************************************************************************)
\* number of candidate elements the two sites serve in one run
MaxCandidates == 4

\* max_pages of WholesaleMandiScraper.scrape
max_pages == 50

\* length of the text signature of a candidate
SignatureLength == 100

\* product.get_text()[:100]
TextSignature(product) == Prefix(GetText(product), SignatureLength + 1)

\* a faulty variant of ItemKey: the name is folded to lower case
ItemKeyFolded(item) == LowerStr(item.name) \o "|" \o item.price

\* key = f"{item['name']}|{item['price']}"
ItemKey(item) == item.name \o "|" \o item.price

MainInit ==
    /\ scrape_hyperpure \in BOOLEAN
    /\ scrape_mandi \in BOOLEAN
    /\ scrape_hyperpure \/ scrape_mandi
    /\ pc = IF scrape_hyperpure THEN "hyperpure" ELSE "mandi"
    /\ served = 0
    /\ hp_seen_texts = {}
    /\ hp_count = 0
    /\ hp_seen_items = {}
    /\ hp_items = << >>
    /\ hp_extracted = << >>
    /\ wm_page = 1
    /\ wm_seen_items = {}
    /\ wm_items = << >>
    /\ wm_all_items = << >>
    /\ wm_extracted = << >>
    /\ hyperpure_df = EmptyFrame
    /\ mandi_df = EmptyFrame
    /\ session_keys = {}
    /\ comparison_df = << >>
    /\ inputs_before = None

ExOff ==
    /\ ex_phase = "off"
    /\ ex_element = << >>
    /\ ex_source = ""
    /\ ex_result = None

NmOff ==
    /\ nm_phase = "off"
    /\ nm_words = << >>
    /\ nm_key = ""
    /\ nm_rekey = ""

CdOff ==
    /\ cd_phase = "off"
    /\ cd_page = << >>
    /\ cd_soup = << >>
    /\ cd_products = << >>
    /\ cd_steps = << >>
    /\ cd_walk = << >>
    /\ cd_unique = << >>
    /\ cd_index = 1
    /\ cd_seen_items = {}
    /\ cd_items = << >>

PgOff ==
    /\ pg_phase = "off"
    /\ pg_page = 1
    /\ pg_all_items = << >>
    /\ pg_requested = << >>
    /\ pg_responses = << >>
    /\ pg_df = None

ScOff ==
    /\ sc_phase = "off"
    /\ sc_attempt = 0
    /\ sc_last_height = 0
    /\ sc_no_change = 0
    /\ sc_last_change = 0
    /\ sc_final = FALSE
    /\ sc_exit = ""

Init == MainInit /\ ExOff /\ NmOff /\ CdOff /\ PgOff /\ ScOff

\* HyperpureScraper._scrape_all_products, lines 272-294, for one element of products:
\* an element whose text signature was seen is dropped; any other one is extracted
\* and its record kept unless its key was seen
HpProcessProduct(product) ==
    /\ pc = "hyperpure"
    /\ served < MaxCandidates
    /\ served' = served + 1
    /\ IF TextSignature(product) \in hp_seen_texts
       THEN UNCHANGED << hp_seen_texts, hp_count, hp_seen_items, hp_items, hp_extracted >>
       ELSE LET item == HpRecordOf[product]
            IN  /\ hp_seen_texts' = hp_seen_texts \cup {TextSignature(product)}
                /\ hp_count' = hp_count + 1
                /\ IF item = None
                   THEN UNCHANGED << hp_seen_items, hp_items, hp_extracted >>
                   ELSE /\ hp_extracted' = Append(hp_extracted, item)
                        /\ IF ItemKey(item) \in hp_seen_items
                           THEN UNCHANGED << hp_seen_items, hp_items >>
                           ELSE /\ hp_seen_items' = hp_seen_items \cup {ItemKey(item)}
                                /\ hp_items' = Append(hp_items, item)
    /\ UNCHANGED << pc, scrape_hyperpure, scrape_mandi, wm_page, wm_seen_items, wm_items,
                    wm_all_items, wm_extracted, hyperpure_df, mandi_df, session_keys,
                    comparison_df, inputs_before, ex_vars, nm_vars, cd_vars, pg_vars, sc_vars >>

\* HyperpureScraper.scrape returns _create_dataframe(all_items); main stores the frame
HpScrapeReturns ==
    /\ pc = "hyperpure"
    /\ hyperpure_df' = HpCreateDataframe(hp_items)
    /\ session_keys' = session_keys \cup {"hyperpure_data"}
    /\ pc' = IF scrape_mandi THEN "mandi" ELSE "compare"
    /\ UNCHANGED << scrape_hyperpure, scrape_mandi, served, hp_seen_texts, hp_count,
                    hp_seen_items, hp_items, hp_extracted, wm_page, wm_seen_items,
                    wm_items, wm_all_items, wm_extracted, mandi_df, comparison_df,
                    inputs_before, ex_vars, nm_vars, cd_vars, pg_vars, sc_vars >>

\* WholesaleMandiScraper._scrape_page, lines 633-643, for one element of products
WmProcessProduct(product) ==
    /\ pc = "mandi"
    /\ served < MaxCandidates
    /\ served' = served + 1
    /\ LET item == WmRecordOf[product]
       IN  IF item = None
           THEN UNCHANGED << wm_seen_items, wm_items, wm_extracted >>
           ELSE /\ wm_extracted' = Append(wm_extracted, item)
                /\ IF ItemKey(item) \in wm_seen_items
                   THEN UNCHANGED << wm_seen_items, wm_items >>
                   ELSE /\ wm_seen_items' = wm_seen_items \cup {ItemKey(item)}
                        /\ wm_items' = Append(wm_items, item)
    /\ UNCHANGED << pc, scrape_hyperpure, scrape_mandi, hp_seen_texts, hp_count,
                    hp_seen_items, hp_items, hp_extracted, wm_page, wm_all_items,
                    hyperpure_df, mandi_df, session_keys, comparison_df, inputs_before,
                    ex_vars, nm_vars, cd_vars, pg_vars, sc_vars >>

\* WholesaleMandiScraper.scrape, lines 565-589, once _scrape_page has returned: an
\* empty page ends the loop; the items of any other page are kept, and the loop goes
\* on to the next page when there is a next-page indicator and page < max_pages.
\* When the loop ends scrape returns _create_dataframe(all_items); main stores it.
WmPageScraped(has_next_page) ==
    /\ pc = "mandi"
    /\ LET all_items == IF wm_items = << >> THEN wm_all_items ELSE wm_all_items \o wm_items
           goes_on == wm_items # << >> /\ has_next_page /\ wm_page + 1 <= max_pages
       IN  /\ wm_all_items' = all_items
           /\ wm_seen_items' = {}
           /\ wm_items' = << >>
           /\ IF goes_on
              THEN /\ wm_page' = wm_page + 1
                   /\ UNCHANGED << pc, mandi_df, session_keys >>
              ELSE /\ wm_page' = IF wm_items # << >> /\ has_next_page THEN wm_page + 1 ELSE wm_page
                   /\ mandi_df' = WmCreateDataframe(all_items)
                   /\ session_keys' = session_keys \cup {"mandi_data"}
                   /\ pc' = "compare"
    /\ UNCHANGED << scrape_hyperpure, scrape_mandi, served, hp_seen_texts, hp_count,
                    hp_seen_items, hp_items, hp_extracted, wm_extracted, hyperpure_df,
                    comparison_df, inputs_before, ex_vars, nm_vars, cd_vars, pg_vars, sc_vars >>

\* main, lines 1034-1037: create_grouped_comparison(hyperpure_df, mandi_df) adds the
\* BaseItem column to the two frames it is given and returns the grouped rows
CreateGroupedComparison ==
    /\ pc = "compare"
    /\ inputs_before' = [hyperpure_df |-> hyperpure_df, mandi_df |-> mandi_df]
    /\ hyperpure_df' = WithBaseItem(hyperpure_df)
    /\ mandi_df' = WithBaseItem(mandi_df)
    /\ comparison_df' = GroupedComparison(WithBaseItem(hyperpure_df), WithBaseItem(mandi_df))
    /\ session_keys' = session_keys \cup {"comparison_data"}
    /\ pc' = "done"
    /\ UNCHANGED << scrape_hyperpure, scrape_mandi, served, hp_seen_texts, hp_count,
                    hp_seen_items, hp_items, hp_extracted, wm_page, wm_seen_items,
                    wm_items, wm_all_items, wm_extracted, ex_vars, nm_vars, cd_vars, pg_vars, sc_vars >>

Next ==
    \/ \E product \in HpPage : HpProcessProduct(product)
    \/ HpScrapeReturns
    \/ \E product \in WmPage : WmProcessProduct(product)
    \/ \E has_next_page \in BOOLEAN : WmPageScraped(has_next_page)
    \/ CreateGroupedComparison

Spec == Init /\ [][Next]_vars

(***************************************************************************)
(* One call of an extractor on one candidate element.  The candidate is    *)
(* put together from the kinds of node the listing pages hold: product     *)
(* names, quantity labels, button captions, prices with and without unit,  *)
(* a bulk tier, line breaks.                                               *)
(***************************************************************************)
\* number of children of a candidate element
MaxChildren == 2

ExNodes ==
    { Node("h3", "", "Carrot Ooty"),
      Node("h3", "", "Kale Add Fresh"),
      Node("h2", "", "2 kg"),
      Node("span", "", "0.50 kg"),
      Node("p", "", "2 pack"),
      Node("div", "", "1.5 kg Onion"),
      Node("span", "", "Kale ₹30"),
      Node("span", "", "A1 2345"),
      Node("span", "", "------ Add"),
      Node("p", "", "Packs Add"),
      Node("div", "product-title", "Tomato | Hybrid"),
      Node("span", "", "Sold out"),
      Node("span", "", "₹40/kg"),
      Node("span", "", "₹12"),
      Node("span", "price", "Rs. 35 per kg"),
      Node("span", "", "₹56/kg for 9 kgs+ "),
      Node("span", "", "₹5/kg for 20 kgs+ ₹6/pc for 3 pcs+ ₹7/pc for 30 pcs+ ₹8/kg"),
      Node("span", "", "₹0/kg for 0 kgs+ ₹9"),
      Node("p", "", "Garlic /kg peeled, crates of twenty, dispatched before the next morning"),
      Node("#text", "", "\n") }

MainOff ==
    /\ pc = "off"
    /\ scrape_hyperpure = FALSE
    /\ scrape_mandi = FALSE
    /\ served = 0
    /\ hp_seen_texts = {}
    /\ hp_count = 0
    /\ hp_seen_items = {}
    /\ hp_items = << >>
    /\ hp_extracted = << >>
    /\ wm_page = 1
    /\ wm_seen_items = {}
    /\ wm_items = << >>
    /\ wm_all_items = << >>
    /\ wm_extracted = << >>
    /\ hyperpure_df = EmptyFrame
    /\ mandi_df = EmptyFrame
    /\ session_keys = {}
    /\ comparison_df = << >>
    /\ inputs_before = None

InitExtract ==
    /\ MainOff
    /\ NmOff
    /\ CdOff
    /\ PgOff
    /\ ScOff
    /\ ex_phase = "build"
    /\ ex_element = << >>
    /\ ex_source = ""
    /\ ex_result = None

\* the page holds one more node inside the candidate
ExAddChild(node) ==
    /\ ex_phase = "build"
    /\ Len(ex_element) < MaxChildren
    /\ ex_element' = Append(ex_element, node)
    /\ UNCHANGED << ex_phase, ex_source, ex_result, main_vars, nm_vars, cd_vars, pg_vars, sc_vars >>

\* item = HyperpureScraper._extract_product_info(product)
ExHyperpure ==
    /\ ex_phase = "build"
    /\ ex_phase' = "done"
    /\ ex_source' = "hyperpure"
    /\ ex_result' = HpExtractProductInfo(ex_element)
    /\ UNCHANGED << ex_element, main_vars, nm_vars, cd_vars, pg_vars, sc_vars >>

\* item = WholesaleMandiScraper._extract_product_info(product)
ExMandi ==
    /\ ex_phase = "build"
    /\ ex_phase' = "done"
    /\ ex_source' = "mandi"
    /\ ex_result' = WmExtractProductInfo(ex_element)
    /\ UNCHANGED << ex_element, main_vars, nm_vars, cd_vars, pg_vars, sc_vars >>

NextExtract ==
    \/ \E node \in ExNodes : ExAddChild(node)
    \/ ExHyperpure
    \/ ExMandi

SpecExtract == InitExtract /\ [][NextExtract]_vars

(***************************************************************************)
(* extract_base_item_name on its own: a name is put together from words    *)
(* (dictionary terms, parts of terms of two words, descriptors, words in   *)
(* brackets, short words, a word with a letter outside a-z), normalized,   *)
(* and the key is normalized again.                                        *)
(***************************************************************************)
\* number of words of a name
MaxWords == 3

NameWords ==
    { "Sweet", "potato", "Pineapple", "(Big)", "fresh", "kale,", "A1", "ßpinach" }

\* the name the words make
ItemName(words) == Join(" ", words)

InitNormalize ==
    /\ MainOff
    /\ ExOff
    /\ CdOff
    /\ PgOff
    /\ ScOff
    /\ nm_phase = "build"
    /\ nm_words = << >>
    /\ nm_key = ""
    /\ nm_rekey = ""

\* the name has one more word
NmAddWord(word) ==
    /\ nm_phase = "build"
    /\ Len(nm_words) < MaxWords
    /\ nm_words' = Append(nm_words, word)
    /\ UNCHANGED << nm_phase, nm_key, nm_rekey, main_vars, ex_vars, cd_vars, pg_vars, sc_vars >>

\* key = extract_base_item_name(item_name)
NmNormalize ==
    /\ nm_phase = "build"
    /\ nm_phase' = "keyed"
    /\ nm_key' = extract_base_item_name(ItemName(nm_words))
    /\ UNCHANGED << nm_words, nm_rekey, main_vars, ex_vars, cd_vars, pg_vars, sc_vars >>

\* extract_base_item_name(key)
NmNormalizeAgain ==
    /\ nm_phase = "keyed"
    /\ nm_phase' = "rekeyed"
    /\ nm_rekey' = extract_base_item_name(nm_key)
    /\ UNCHANGED << nm_words, nm_key, main_vars, ex_vars, cd_vars, pg_vars, sc_vars >>

NextNormalize ==
    \/ \E word \in NameWords : NmAddWord(word)
    \/ NmNormalize
    \/ NmNormalizeAgain

SpecNormalize == InitNormalize /\ [][NextNormalize]_vars

(***************************************************************************)
(* HyperpureScraper._scrape_all_products on one page.  soup is the parsed  *)
(* page: its nodes in document order, every node with the position of its  *)
(* parent.  A node with a text is an element that holds one string; in     *)
(* these pages the elements that hold other elements are section, article, *)
(* ul, li, main, body and html, so that a div, span, p or heading holds a  *)
(* string only.                                                            *)
(***************************************************************************)
\* the candidates below which Methods 2 and 3 run
MinCandidates == 20

\* the bounds on the length of the text of a block: 20 < len(text) < 600
MinTextLength == 20
MaxTextLength == 600

\* number of blocks of a page
MaxBlocks == 2

\* number of product cards of the listing block
ListingSize == 18

Elem(tag, cls, testid, qa, text, parent) ==
    [tag |-> tag, cls |-> cls, testid |-> testid, qa |-> qa, text |-> text,
     parent |-> parent]

\* the blocks a page is made of; inside a block, parent 0 is the page's main element.
\* listing: a section of ListingSize cards; pair: a section of two cards; tiers: a
\* card whose price string is longer than 20 characters; soon: a card without price;
\* promo: a price three levels below main, in a list; single: a section that holds
\* one card; tile: a div with a string, marked by data-testid
PageBlocks ==
    LET TwoDigits(k) == At(DigitChars, (k \div 10) + 1) \o At(DigitChars, (k % 10) + 1)
        Card(i, k, r) ==
            IF r = 0 THEN Elem("article", "product", "", "", "", 1)
            ELSE IF r = 1 THEN Elem("h3", "", "", "", "Potato lot " \o TwoDigits(k), i - 1)
            ELSE Elem("span", "", "", "", "₹" \o TwoDigits(10 + k) \o "/kg", i - 2)
    IN  [ listing |->
            [ i \in 1..(1 + 3 * ListingSize) |->
                IF i = 1 THEN Elem("section", "listing", "", "", "", 0)
                ELSE Card(i, ((i - 2) \div 3) + 1, (i - 2) % 3) ],
          pair |->
            << Elem("section", "", "", "", "", 0),
               Elem("article", "product-card", "", "", "", 1),
               Elem("h3", "", "", "", "Carrot Ooty", 2),
               Elem("span", "", "", "", "₹40/kg", 2),
               Elem("article", "product-card", "", "", "", 1),
               Elem("h3", "", "", "", "Tomato Hybrid", 5),
               Elem("span", "price", "", "", "₹30/kg", 5) >>,
          tiers |->
            << Elem("article", "", "", "", "", 0),
               Elem("h3", "", "", "", "Watermelon Kiran 1 kg", 1),
               Elem("span", "", "", "", "₹56/kg for 9 kgs+ ₹60/kg", 1) >>,
          soon |->
            << Elem("article", "product", "", "", "", 0),
               Elem("h3", "", "", "", "Coming soon to your city", 1) >>,
          promo |->
            << Elem("ul", "", "", "", "", 0),
               Elem("li", "", "", "", "", 1),
               Elem("span", "", "", "", "Kale", 2),
               Elem("span", "", "", "", "₹12", 2) >>,
          single |->
            << Elem("section", "", "", "", "", 0),
               Elem("article", "", "", "", "", 1),
               Elem("h3", "", "", "", "Fresh Big Onion Nashik 5 kg", 2),
               Elem("span", "", "", "", "₹150", 2) >>,
          tile |->
            << Elem("div", "", "product-tile", "", "Kale Bunch ₹30 each, sold per piece", 0)
            >> ]

\* BeautifulSoup(self.driver.page_source, 'html.parser'): the document, html, body
\* and main, then the blocks of the page below main
RECURSIVE ParsePage(_, _)
ParsePage(nodes, page) ==
    LET Placed(block) ==
            [ i \in 1..Len(block) |->
                [block[i] EXCEPT !.parent = IF @ = 0 THEN 4 ELSE Len(nodes) + @] ]
    IN  IF page = << >> THEN nodes
        ELSE ParsePage(nodes \o Placed(PageBlocks[Head(page)]), Tail(page))

\* the last node of the subtree of node n (the nodes are in document order)
LastOf(doc, n) ==
    LET Before(out) == IF out = {} THEN Len(doc) ELSE Min(out) - 1
    IN  Before({ j \in (n + 1)..Len(doc) : doc[j].parent < n })

\* node.get_text()
TextOf(doc, n) ==
    LET Strings(last) == Concat([ i \in 1..(last - n + 1) |-> doc[n + i - 1].text ])
    IN  Strings(LastOf(doc, n))

\* a == b for two elements: the same name, the same attributes and the same
\* contents, whatever their place in the document
SameMarkup(doc, a, b) ==
    LET Alike(x, y, k) ==
            /\ x.tag = y.tag /\ x.cls = y.cls /\ x.testid = y.testid /\ x.qa = y.qa
            /\ x.text = y.text
            /\ k > 0 => x.parent - a = y.parent - b
        Same(la, lb) ==
            /\ la = lb
            /\ \A k \in 0..(la - a) : Alike(doc[a + k], doc[b + k], k)
    IN  a = b \/ Same(LastOf(doc, a), LastOf(doc, b) - b + a)

\* the element as _extract_product_info reads it: the elements below it that hold
\* a string (or nothing), in document order; an element that holds a string is
\* that string
Flatten(doc, n) ==
    LET Leaves(at) == [ k \in 1..Len(at) |-> Node(doc[at[k]].tag, doc[at[k]].cls,
                                                 doc[at[k]].text) ]
        Below(last) ==
            Leaves(Ascending({ d \in (n + 1)..last : LastOf(doc, d) = d }))
    IN  IF doc[n].text # "" THEN << Node("#text", "", doc[n].text) >>
        ELSE Below(LastOf(doc, n))

\* all_selectors, in the order of the list: tag, attribute and the string that the
\* attribute has to contain ("" where the selector names none)
all_selectors ==
    << [tag |-> "div", attr |-> "cls", value |-> "ProductCard"],
       [tag |-> "div", attr |-> "cls", value |-> "product-card"],
       [tag |-> "div", attr |-> "cls", value |-> "ProductTile"],
       [tag |-> "div", attr |-> "cls", value |-> "productCard"],
       [tag |-> "div", attr |-> "cls", value |-> "Card"],
       [tag |-> "div", attr |-> "testid", value |-> "product"],
       [tag |-> "article", attr |-> "cls", value |-> "product"],
       [tag |-> "article", attr |-> "", value |-> ""],
       [tag |-> "div", attr |-> "cls", value |-> "card"],
       [tag |-> "div", attr |-> "cls", value |-> "item"],
       [tag |-> "", attr |-> "qa", value |-> "product"],
       [tag |-> "", attr |-> "cls", value |-> "product-item"] >>

\* lines 231-236 from selector k on: found replaces products when it is longer
RECURSIVE SelectProducts(_, _, _)
SelectProducts(doc, k, found_so_far) ==
    LET Matches(node, selector) ==
            /\ selector.tag = "" \/ node.tag = selector.tag
            /\ selector.attr = "" \/ Contains(node[selector.attr], selector.value)
        Wider(found) == IF Len(found) > Len(found_so_far) THEN found ELSE found_so_far
    IN  IF k > Len(all_selectors) THEN found_so_far
        ELSE SelectProducts(doc, k + 1,
                 Wider(Ascending({ n \in 2..Len(doc) : Matches(doc[n], all_selectors[k]) })))

\* the test of lines 246 and 262-263 on the text of a node
BlockTest(doc, n) ==
    LET Passes(text) ==
            /\ HasCurrency(text)
            /\ MinTextLength < Len(text)
            /\ Len(text) < MaxTextLength
    IN  Passes(TextOf(doc, n))

\* node in products: some element of the list has the same markup
InProducts(doc, prods, n) ==
    \E i \in 1..Len(prods) : SameMarkup(doc, prods[i], n)

\* a faulty variant of NeedsFallback: a set of exactly 20 candidates counts as small
NeedsFallbackAtThreshold(prods) == Len(prods) <= MinCandidates

\* len(products) < 20, the condition of lines 241 and 254
NeedsFallback(prods) == Len(prods) < MinCandidates

\* Method 2, lines 242-249: every div, article and section element, in document
\* order, that passes the test and is not in products yet is appended
RECURSIVE Method2From(_, _, _)
Method2From(doc, prods, all_divs) ==
    IF all_divs = << >> THEN prods
    ELSE Method2From(doc,
                     IF BlockTest(doc, Head(all_divs)) /\ ~InProducts(doc, prods, Head(all_divs))
                     THEN Append(prods, Head(all_divs))
                     ELSE prods,
                     Tail(all_divs))

Method2(doc, prods) ==
    Method2From(doc, prods,
                Ascending({ n \in 2..Len(doc) : doc[n].tag \in {"div", "article", "section"} }))

\* lines 258-266 for one string: parent is the element that holds it, then the parent
\* of that, and so on, once for every level of range(3, 8); the walk ends at the first
\* parent that passes the test and is not in products (0: the walk ended without one)
RECURSIVE WalkUp(_, _, _, _)
WalkUp(doc, prods, parent, levels) ==
    IF levels = {} \/ parent = 0 THEN 0
    ELSE IF BlockTest(doc, parent) /\ ~InProducts(doc, prods, parent) THEN parent
    ELSE WalkUp(doc, prods, doc[parent].parent, levels \ {Min(levels)})

\* lines 255-266: the walks of price_elements, each on the products the earlier
\* ones left; a walk is the element holding the string and the parent it added
RECURSIVE PriceWalks(_, _, _)
PriceWalks(doc, prods, price_elements) ==
    LET Then(parent) ==
            << [string |-> Head(price_elements), parent |-> parent] >>
            \o PriceWalks(doc,
                          IF parent = 0 THEN prods ELSE Append(prods, parent),
                          Tail(price_elements))
    IN  IF price_elements = << >> THEN << >>
        ELSE Then(WalkUp(doc, prods, Head(price_elements), 3..7))

\* soup.find_all(string=re.compile(...)), line 255: the elements holding such a string
PriceElements(doc) ==
    Ascending({ n \in 2..Len(doc) : HasCurrency(doc[n].text) })

\* Method 3, lines 255-267
Method3(doc, prods) ==
    LET Parents(added) == [ k \in 1..Len(added) |-> added[k].parent ]
    IN  prods \o Parents(SelectSeq(PriceWalks(doc, prods, PriceElements(doc)),
                                   LAMBDA w : w.parent # 0))

\* a faulty variant of UniqueProducts: the last candidate of a signature is kept
UniqueProductsKeepLast(doc, prods) ==
    LET Kept(last) == [ k \in 1..Len(last) |-> prods[last[k]] ]
        Last(sig) == Kept(Ascending({ i \in 1..Len(prods) :
                                        \A j \in (i + 1)..Len(prods) : sig[j] # sig[i] }))
    IN  Last([ i \in 1..Len(prods) |-> TextSignature(Flatten(doc, prods[i])) ])

\* unique_products, lines 272-278
UniqueProducts(doc, prods) ==
    LET Kept(first) == [ k \in 1..Len(first) |-> prods[first[k]] ]
        First(sig) == Kept(Ascending({ i \in 1..Len(prods) :
                                         \A j \in 1..(i - 1) : sig[j] # sig[i] }))
    IN  First([ i \in 1..Len(prods) |-> TextSignature(Flatten(doc, prods[i])) ])

\* a faulty variant of AfterCandidate: a candidate without record ends the loop
AfterCandidateStops(index, count, item) ==
    IF item = None THEN count + 1 ELSE index + 1

\* the loop of line 284 goes on to the next candidate, whatever the item was
AfterCandidate(index, count, item) == index + 1

InitCandidates ==
    /\ MainOff
    /\ ExOff
    /\ NmOff
    /\ PgOff
    /\ ScOff
    /\ cd_phase = "page"
    /\ cd_page = << >>
    /\ cd_soup = << >>
    /\ cd_products = << >>
    /\ cd_steps = << >>
    /\ cd_walk = << >>
    /\ cd_unique = << >>
    /\ cd_index = 1
    /\ cd_seen_items = {}
    /\ cd_items = << >>

\* the page holds one more block
CdAddBlock(block) ==
    /\ cd_phase = "page"
    /\ Len(cd_page) < MaxBlocks
    /\ cd_page' = Append(cd_page, block)
    /\ UNCHANGED << cd_phase, cd_soup, cd_products, cd_steps, cd_walk, cd_unique,
                    cd_index, cd_seen_items, cd_items, main_vars, ex_vars, nm_vars, pg_vars, sc_vars >>

\* lines 213-236: the page is parsed and the widest selector result becomes products
CdSelect ==
    /\ cd_phase = "page"
    /\ LET Selected(doc, found) ==
               /\ cd_soup' = doc
               /\ cd_products' = found
               /\ cd_steps' = << [step |-> "selectors", products |-> found] >>
           Parsed(doc) == Selected(doc, SelectProducts(doc, 1, << >>))
       IN  Parsed(ParsePage(<< Elem("[document]", "", "", "", "", 0),
                               Elem("html", "", "", "", "", 1),
                               Elem("body", "", "", "", "", 2),
                               Elem("main", "", "", "", "", 3) >>, cd_page))
    /\ cd_phase' = "method2"
    /\ UNCHANGED << cd_page, cd_walk, cd_unique, cd_index, cd_seen_items, cd_items,
                    main_vars, ex_vars, nm_vars, pg_vars, sc_vars >>

\* lines 241-249
CdMethod2 ==
    /\ cd_phase = "method2"
    /\ IF NeedsFallback(cd_products)
       THEN LET Added(found) ==
                    /\ cd_products' = found
                    /\ cd_steps' = Append(cd_steps, [step |-> "method2", products |-> found])
            IN  Added(Method2(cd_soup, cd_products))
       ELSE UNCHANGED << cd_products, cd_steps >>
    /\ cd_phase' = "method3"
    /\ UNCHANGED << cd_page, cd_soup, cd_walk, cd_unique, cd_index, cd_seen_items,
                    cd_items, main_vars, ex_vars, nm_vars, pg_vars, sc_vars >>

\* lines 254-267
CdMethod3 ==
    /\ cd_phase = "method3"
    /\ IF NeedsFallback(cd_products)
       THEN LET Added(found) ==
                    /\ cd_products' = found
                    /\ cd_steps' = Append(cd_steps, [step |-> "method3", products |-> found])
            IN  /\ Added(Method3(cd_soup, cd_products))
                /\ cd_walk' = PriceWalks(cd_soup, cd_products, PriceElements(cd_soup))
       ELSE UNCHANGED << cd_products, cd_steps, cd_walk >>
    /\ cd_phase' = "dedup"
    /\ UNCHANGED << cd_page, cd_soup, cd_unique, cd_index, cd_seen_items, cd_items,
                    main_vars, ex_vars, nm_vars, pg_vars, sc_vars >>

\* lines 272-278
CdDedup ==
    /\ cd_phase = "dedup"
    /\ cd_unique' = UniqueProducts(cd_soup, cd_products)
    /\ cd_phase' = "extract"
    /\ UNCHANGED << cd_page, cd_soup, cd_products, cd_steps, cd_walk, cd_index,
                    cd_seen_items, cd_items, main_vars, ex_vars, nm_vars, pg_vars, sc_vars >>

\* lines 284-294 for one element of unique_products
CdExtract ==
    /\ cd_phase = "extract"
    /\ cd_index <= Len(cd_unique)
    /\ LET Kept(item) ==
               /\ IF item = None \/ ItemKey(item) \in cd_seen_items
                  THEN UNCHANGED << cd_seen_items, cd_items >>
                  ELSE /\ cd_seen_items' = cd_seen_items \cup {ItemKey(item)}
                       /\ cd_items' = Append(cd_items, item)
               /\ cd_index' = AfterCandidate(cd_index, Len(cd_unique), item)
       IN  Kept(HpExtractProductInfo(Flatten(cd_soup, cd_unique[cd_index])))
    /\ UNCHANGED << cd_phase, cd_page, cd_soup, cd_products, cd_steps, cd_walk,
                    cd_unique, main_vars, ex_vars, nm_vars, pg_vars, sc_vars >>

\* line 301: return items
CdReturn ==
    /\ cd_phase = "extract"
    /\ cd_index > Len(cd_unique)
    /\ cd_phase' = "done"
    /\ UNCHANGED << cd_page, cd_soup, cd_products, cd_steps, cd_walk, cd_unique,
                    cd_index, cd_seen_items, cd_items, main_vars, ex_vars, nm_vars, pg_vars, sc_vars >>

NextCandidates ==
    \/ \E block \in DOMAIN PageBlocks : CdAddBlock(block)
    \/ CdSelect
    \/ CdMethod2
    \/ CdMethod3
    \/ CdDedup
    \/ CdExtract
    \/ CdReturn

SpecCandidates == InitCandidates /\ [][NextCandidates]_vars

(***************************************************************************)
(* WholesaleMandiScraper.scrape: the pagination loop, lines 547-589.  A     *)
(* requested page raises in driver.get, or _scrape_page finds no item on   *)
(* it, or it has items and _has_next_page finds no indicator, or it has    *)
(* items and an indicator.                                                 *)
(***************************************************************************)
PageResponses == {"raises", "empty", "last", "next"}

\* the items _scrape_page returns for a page that has items
ItemsOfPage(page) ==
    LET TwoDigits(k) == At(DigitChars, (k \div 10) + 1) \o At(DigitChars, (k % 10) + 1)
    IN  << [name |-> "Onion lot " \o TwoDigits(page), price |-> "₹40", unit |-> "kg"] >>

\* a faulty variant of LoopGoesOn: the loop runs for one page more
LoopGoesOnPastMax(page) == page <= max_pages + 1

\* while page <= max_pages, line 552
LoopGoesOn(page) == page <= max_pages

InitPaging ==
    /\ MainOff
    /\ ExOff
    /\ NmOff
    /\ CdOff
    /\ ScOff
    /\ pg_phase = "loop"
    /\ pg_page = 1
    /\ pg_all_items = << >>
    /\ pg_requested = << >>
    /\ pg_responses = << >>
    /\ pg_df = None

\* one iteration of the loop, lines 553-583
PgIteration(response) ==
    /\ pg_phase = "loop"
    /\ LoopGoesOn(pg_page)
    /\ pg_requested' = Append(pg_requested, pg_page)
    /\ pg_responses' = Append(pg_responses, response)
    /\ pg_all_items' = IF response \in {"last", "next"}
                       THEN pg_all_items \o ItemsOfPage(pg_page)
                       ELSE pg_all_items
    /\ pg_page' = IF response = "next" THEN pg_page + 1 ELSE pg_page
    /\ pg_phase' = IF response = "next" THEN "loop" ELSE "return"
    /\ UNCHANGED << pg_df, main_vars, ex_vars, nm_vars, cd_vars, sc_vars >>

\* the condition of line 552 fails
PgLoopEnds ==
    /\ pg_phase = "loop"
    /\ ~ LoopGoesOn(pg_page)
    /\ pg_phase' = "return"
    /\ UNCHANGED << pg_page, pg_all_items, pg_requested, pg_responses, pg_df,
                    main_vars, ex_vars, nm_vars, cd_vars, sc_vars >>

\* line 589: return self._create_dataframe(all_items, "Wholesale Mandi")
PgReturn ==
    /\ pg_phase = "return"
    /\ pg_df' = WmCreateDataframe(pg_all_items)
    /\ pg_phase' = "done"
    /\ UNCHANGED << pg_page, pg_all_items, pg_requested, pg_responses,
                    main_vars, ex_vars, nm_vars, cd_vars, sc_vars >>

NextPaging ==
    \/ \E response \in PageResponses : PgIteration(response)
    \/ PgLoopEnds
    \/ PgReturn

\* the step of PgReturn, without the frame it builds
PgReturns == pg_phase = "return" /\ pg_phase' = "done"

\* scrape is a sequential program: driver.get returns or raises, and the statement
\* that comes next is executed
SpecPaging ==
    /\ InitPaging
    /\ [][NextPaging]_vars
    /\ WF_vars(\E response \in PageResponses : PgIteration(response))
    /\ WF_vars(PgLoopEnds)
    /\ WF_pg_phase(PgReturns)

(***************************************************************************)
(* HyperpureScraper._scroll_page, lines 162-204.                           *)
(***************************************************************************)
\* the heights document.body.scrollHeight takes are 1..MaxHeight
MaxHeight == 3

\* range(50), line 173
scroll_attempts == 50

\* max_no_change, line 171
max_no_change == 5

\* a faulty variant of NoChangeCount: a new height leaves the counter as it is
NoChangeCountKept(count, new_height, last_height) ==
    IF new_height = last_height THEN count + 1 ELSE count

\* no_change_count after lines 181-192
NoChangeCount(count, new_height, last_height) ==
    IF new_height = last_height THEN count + 1 ELSE 0

\* lines 166-171: the first height is measured
InitScroll ==
    /\ MainOff
    /\ ExOff
    /\ NmOff
    /\ CdOff
    /\ PgOff
    /\ sc_phase = "loop"
    /\ sc_attempt = 0
    /\ sc_last_height \in 1..MaxHeight
    /\ sc_no_change = 0
    /\ sc_last_change = 0
    /\ sc_final = FALSE
    /\ sc_exit = ""

\* one iteration of the loop, lines 174-202, in which the driver raises nothing: the
\* page is scrolled to its bottom and new_height is measured
ScIteration(new_height) ==
    /\ sc_phase = "loop"
    /\ sc_attempt < scroll_attempts
    /\ sc_attempt' = sc_attempt + 1
    /\ sc_no_change' = NoChangeCount(sc_no_change, new_height, sc_last_height)
    /\ sc_last_change' = IF new_height = sc_last_height THEN sc_last_change
                         ELSE sc_attempt + 1
    /\ IF new_height = sc_last_height /\ sc_no_change' >= max_no_change
       THEN /\ sc_final' = TRUE
            /\ sc_exit' = "settled"
            /\ sc_phase' = "done"
            /\ UNCHANGED sc_last_height
       ELSE /\ sc_last_height' = new_height
            /\ UNCHANGED << sc_final, sc_exit, sc_phase >>
    /\ UNCHANGED << main_vars, ex_vars, nm_vars, cd_vars, pg_vars >>

\* range(50) is used up, line 173
ScLoopEnds ==
    /\ sc_phase = "loop"
    /\ sc_attempt >= scroll_attempts
    /\ sc_exit' = "exhausted"
    /\ sc_phase' = "done"
    /\ UNCHANGED << sc_attempt, sc_last_height, sc_no_change, sc_last_change, sc_final,
                    main_vars, ex_vars, nm_vars, cd_vars, pg_vars >>

\* a call of the driver raises inside an iteration; lines 203-204 catch it and the
\* method returns
ScDriverError ==
    /\ sc_phase = "loop"
    /\ sc_attempt < scroll_attempts
    /\ sc_exit' = "error"
    /\ sc_phase' = "done"
    /\ UNCHANGED << sc_attempt, sc_last_height, sc_no_change, sc_last_change, sc_final,
                    main_vars, ex_vars, nm_vars, cd_vars, pg_vars >>

NextScroll ==
    \/ \E new_height \in 1..MaxHeight : ScIteration(new_height)
    \/ ScLoopEnds
    \/ ScDriverError

SpecScroll == InitScroll /\ [][NextScroll]_vars

(***************************************************************************)
(* Vocabulary of the properties.                                           *)
(***************************************************************************)
\* the (Name, Price, Unit) records of the rows of a frame, whatever its columns
Records(rows) ==
    [ k \in 1..Len(rows) |->
        [Name |-> rows[k].Name, Price |-> rows[k].Price, Unit |-> rows[k].Unit] ]

\* no two rows have the same name and the same price
NoTwoAlike(rows) ==
    \A i, j \in 1..Len(rows) :
        i # j => rows[i].Name # rows[j].Name \/ rows[i].Price # rows[j].Price

\* the first occurrence of every (name, price) pair of a list of items, in order
FirstOccurrences(items) ==
    LET Kept(first) == [ k \in 1..Len(first) |-> items[first[k]] ]
    IN  Kept(Ascending({ i \in 1..Len(items) :
                           \A j \in 1..(i - 1) :
                               items[j].name # items[i].name
                               \/ items[j].price # items[i].price }))

\* how often each element occurs in a sequence
BagOf(seq) ==
    [ x \in { seq[i] : i \in 1..Len(seq) } |->
        Cardinality({ i \in 1..Len(seq) : seq[i] = x }) ]

\* the records the grouper was given
InputA == Records(inputs_before.hyperpure_df.rows)
InputB == Records(inputs_before.mandi_df.rows)

\* the records of an input with a base-item key, in their order
WithKey(records, key) == SelectSeq(records, LAMBDA r : BaseItemOf[r.Name] = key)

\* the two sides of a row of the comparison
SideA(row) ==
    [Name |-> row.Hyperpure_Name, Price |-> row.Hyperpure_Price, Unit |-> row.Hyperpure_Unit]

SideB(row) ==
    [Name |-> row.WholesaleMandi_Name, Price |-> row.WholesaleMandi_Price,
     Unit |-> row.WholesaleMandi_Unit]

EmptySide == [Name |-> "", Price |-> "", Unit |-> ""]

\* the filled sides of the item rows, in order
FilledA(rows) ==
    LET Sides(item_rows) == [ k \in 1..Len(item_rows) |-> SideA(item_rows[k]) ]
    IN  Sides(SelectSeq(rows, LAMBDA r : ~ r.IsGroupHeader /\ SideA(r) # EmptySide))

FilledB(rows) ==
    LET Sides(item_rows) == [ k \in 1..Len(item_rows) |-> SideB(item_rows[k]) ]
    IN  Sides(SelectSeq(rows, LAMBDA r : ~ r.IsGroupHeader /\ SideB(r) # EmptySide))

\* the positions of the group headers, and the key a header is for
HeaderPositions(rows) == { h \in 1..Len(rows) : rows[h].IsGroupHeader }

HeaderKey(row) == Suffix(row.Group, Len(GroupLabel("")) + 1)

HeaderKeys(rows) ==
    LET Keys(at) == [ k \in 1..Len(at) |-> HeaderKey(rows[at[k]]) ]
    IN  Keys(Ascending(HeaderPositions(rows)))

\* the position after the last row of the group whose header is at h
GroupEnd(rows, h) ==
    Min({ j \in (h + 1)..(Len(rows) + 1) : j = Len(rows) + 1 \/ rows[j].IsGroupHeader })

\* the keys of the records of the two inputs
InputKeys == { BaseItemOf[InputA[k].Name] : k \in 1..Len(InputA) }
             \cup { BaseItemOf[InputB[k].Name] : k \in 1..Len(InputB) }

\* the rows of the groups of a set of keys: 1 + max(a, b) rows a key
RECURSIVE RowCount(_)
RowCount(keys) ==
    IF keys = {} THEN 0
    ELSE LET Counted(key) ==
                 1 + Max({Len(WithKey(InputA, key)), Len(WithKey(InputB, key))})
                 + RowCount(keys \ {key})
         IN  Counted(CHOOSE key \in keys : TRUE)

(***************************************************************************)
(* De-duplication.                                                         *)
(***************************************************************************)
\* C1: the record set a scrape returns holds no two records with the same name and
\* the same price string; for Wholesale Mandi over all the pages visited
C1_DedupInvariant ==
    /\ NoTwoAlike(hyperpure_df.rows)
    /\ NoTwoAlike(mandi_df.rows)
    /\ NoTwoAlike(RenamedRows(hp_items))
    /\ NoTwoAlike(RenamedRows(wm_items))

\* a Wholesale Mandi scrape has returned, and a record that a later page repeated
\* is once in the frame
C1_Witness ==
    /\ "mandi_data" \in session_keys
    /\ wm_page > 1
    /\ mandi_df.rows # << >>
    /\ Len(wm_all_items) > Len(mandi_df.rows)

\* C2: the de-duplicated records are the first occurrence of every (name, price)
\* pair of the extracted records, in their order; a record goes only when an earlier
\* one has the same name string and the same price string
C2_DedupStableExact ==
    /\ hp_items = FirstOccurrences(hp_extracted)
    /\ "hyperpure_data" \in session_keys
           => Records(hyperpure_df.rows) = RenamedRows(FirstOccurrences(hp_extracted))
    /\ FirstOccurrences(wm_all_items \o wm_items) = FirstOccurrences(wm_extracted)
    /\ "mandi_data" \in session_keys
           => Records(mandi_df.rows) = RenamedRows(FirstOccurrences(wm_extracted))

\* a repeated record was dropped while two records whose names differ in letter case
\* only, with the same price, were both kept
C2_Witness ==
    /\ Len(hp_items) < Len(hp_extracted)
    /\ \E i, j \in 1..Len(hp_items) :
           /\ i < j
           /\ hp_items[i].name # hp_items[j].name
           /\ LowerStr(hp_items[i].name) = LowerStr(hp_items[j].name)
           /\ hp_items[i].price = hp_items[j].price

(***************************************************************************)
(* The grouped comparison.                                                 *)
(***************************************************************************)
\* C3: every record of either input is on its own side of exactly one item row
C3_GroupingComplete ==
    pc = "done" =>
        /\ BagOf(FilledA(comparison_df)) = BagOf(InputA)
        /\ BagOf(FilledB(comparison_df)) = BagOf(InputB)

\* a comparison of two records of one source and one of the other
C3_Witness ==
    /\ pc = "done"
    /\ Len(InputA) + Len(InputB) >= 3
    /\ InputA # << >>
    /\ InputB # << >>

\* C4: the headers are in strictly ascending order of their key, but "Ungrouped",
\* which is last; every key of the two inputs has one header
C4_GroupOrdering ==
    pc = "done" =>
        LET Ordered(keys) ==
                /\ \A k \in 1..(Len(keys) - 1) :
                       /\ keys[k] # "Ungrouped"
                       /\ keys[k + 1] = "Ungrouped" \/ StrLess(keys[k], keys[k + 1])
                /\ { keys[k] : k \in 1..Len(keys) } = InputKeys
                /\ Len(keys) = Cardinality(InputKeys)
        IN  Ordered(HeaderKeys(comparison_df))

\* three groups: two keys in ascending order, the second one after "Ungrouped" in
\* the order of the strings, and "Ungrouped" last
C4_Witness ==
    /\ pc = "done"
    /\ LET Seen(keys) ==
               /\ Len(keys) = 3
               /\ keys[3] = "Ungrouped"
               /\ StrLess("Ungrouped", keys[2])
       IN  Seen(HeaderKeys(comparison_df))

\* C5: the i-th item row of a group holds the i-th record of each input with the
\* group's key, in the order of the input; a side that has no i-th record is empty
C5_Pairing ==
    pc = "done" =>
        LET Paired(h, a, b) ==
                \A i \in 1..Max({Len(a), Len(b)}) :
                    /\ h + i <= Len(comparison_df)
                    /\ ~ comparison_df[h + i].IsGroupHeader
                    /\ SideA(comparison_df[h + i]) = (IF i <= Len(a) THEN a[i] ELSE EmptySide)
                    /\ SideB(comparison_df[h + i]) = (IF i <= Len(b) THEN b[i] ELSE EmptySide)
        IN  \A h \in HeaderPositions(comparison_df) :
                Paired(h, WithKey(InputA, HeaderKey(comparison_df[h])),
                          WithKey(InputB, HeaderKey(comparison_df[h])))

\* a group with two records on one side and one on the other, and a group with
\* records on one side only
C5_Witness ==
    /\ pc = "done"
    /\ \E key \in InputKeys :
           /\ Len(WithKey(InputA, key)) >= 2
           /\ Len(WithKey(InputB, key)) = 1
    /\ \E key \in InputKeys :
           WithKey(InputA, key) = << >> \/ WithKey(InputB, key) = << >>

\* C6: every group is one header row (label set, the six fields empty) and then
\* max(a, b, 1) item rows (label empty), a and b the numbers of records with the key;
\* so there are 1 + max(a, b) rows a group and no item row has two empty sides
C6_RowStructure ==
    pc = "done" =>
        LET Counted(h, a, b) ==
                /\ GroupEnd(comparison_df, h) - h - 1 = Max({Len(a), Len(b), 1})
                /\ GroupEnd(comparison_df, h) - h = 1 + Max({Len(a), Len(b)})
        IN  /\ comparison_df # << >> => comparison_df[1].IsGroupHeader
            /\ \A h \in HeaderPositions(comparison_df) :
                   /\ comparison_df[h].Group # ""
                   /\ SideA(comparison_df[h]) = EmptySide
                   /\ SideB(comparison_df[h]) = EmptySide
                   /\ Counted(h, WithKey(InputA, HeaderKey(comparison_df[h])),
                                 WithKey(InputB, HeaderKey(comparison_df[h])))
            /\ Len(comparison_df) = RowCount(InputKeys)
            /\ \A k \in (1..Len(comparison_df)) \ HeaderPositions(comparison_df) :
                   /\ comparison_df[k].Group = ""
                   /\ SideA(comparison_df[k]) # EmptySide \/ SideB(comparison_df[k]) # EmptySide

\* a comparison of two groups or more, one of them with two item rows
C6_Witness ==
    /\ pc = "done"
    /\ Cardinality(HeaderPositions(comparison_df)) >= 2
    /\ \E h \in HeaderPositions(comparison_df) : GroupEnd(comparison_df, h) - h = 3

\* C7: two empty inputs give the empty comparison, without a header for "Ungrouped"
C7_BothEmpty ==
    (pc = "done" /\ InputA = << >> /\ InputB = << >>) => comparison_df = << >>

\* the grouper has run on two empty inputs, after the sites served candidates that
\* gave no record
C7_Witness ==
    /\ pc = "done"
    /\ served > 0
    /\ inputs_before.hyperpure_df.rows = << >>
    /\ inputs_before.mandi_df.rows = << >>

\* C8: after the grouper has returned, the two frames it was given are as they were
\* before the call
C8_InputsUnchanged ==
    pc = "done" =>
        /\ hyperpure_df = inputs_before.hyperpure_df
        /\ mandi_df = inputs_before.mandi_df

(***************************************************************************)
(* Extraction.                                                             *)
(***************************************************************************)
\* C9: the name of every record of either extractor has three letters or more and
\* is no bare quantity
C9_ValidationInvariant ==
    ex_result # None =>
        /\ LetterCount(ex_result.name) >= 3
        /\ ~ OnlyQtyPattern(ex_result.name)

\* C10: HyperpureScraper._extract_product_info returns no record when no name was
\* found, when the text has no currency amount, or when the cleaned name is a bare
\* quantity, starts with a quantity, has fewer than 5 characters or fewer than 3
\* letters or no letter or digit, or is "pack", "packs" or "<N> pack"; the records
\* it returns have a name and a price
C10_RejectionRules ==
    (ex_phase = "done" /\ ex_source = "hyperpure") =>
        LET Rules(element_text, name, cleaned) ==
                /\ name = "" => ex_result = None
                /\ PriceMatches(element_text) = {} => ex_result = None
                /\ OnlyQtyPattern(cleaned) => ex_result = None
                /\ StartsQtyPattern(cleaned) => ex_result = None
                /\ Len(cleaned) < 5 => ex_result = None
                /\ LetterCount(cleaned) < 3 => ex_result = None
                /\ (\A i \in 1..Len(cleaned) : ~ IsAlnum(At(cleaned, i))) => ex_result = None
                /\ PackPattern(cleaned) => ex_result = None
                /\ ex_result # None => ex_result.name # "" /\ ex_result.price # ""
        IN  Rules(GetText(ex_element), HpFindName(ex_element),
                  HpCleanName(HpFindName(ex_element)))

\* a candidate with a price whose name is "Packs" once cleaned, which the last rule
\* alone rejects: no record
C10_Witness ==
    /\ ex_phase = "done"
    /\ ex_source = "hyperpure"
    /\ ex_result = None
    /\ PriceMatches(GetText(ex_element)) # {}
    /\ HpCleanName(HpFindName(ex_element)) = "Packs"

(***************************************************************************)
(* The price tiers of a record.                                            *)
(***************************************************************************)
\* where the bulk tiers of a composed price string say " for <quantity>"
TierMarks(price) ==
    Ascending({ i \in 1..Len(price) : StartsWithAt(price, i, " for ") })

\* the minimum quantities of the bulk tiers of a composed price string, left to right
TierQuantities(price) ==
    LET Quantity(i) == ParseInt(SubSeq(price, i + 5, RunEnd(price, i + 5, DigitSet) - 1))
        Read(at) == [ k \in 1..Len(at) |-> Quantity(at[k]) ]
    IN  Read(TierMarks(price))

\* the amounts of the bulk tiers of a composed price string, left to right: what
\* stands between " for " and the ₹ before it, up to the unit's slash
TierAmounts(price) ==
    LET Digits(a, i) == SubSeq(price, a, Min({i, AmountEnd(price, a)}) - 1)
        Amount(i) == Digits(Max({ j \in 1..i : At(price, j) = "₹" }) + 1, i)
        Read(at) == [ k \in 1..Len(at) |-> Amount(at[k]) ]
    IN  Read(TierMarks(price))

\* a decimal numeral is greater than zero
Positive(amount) ==
    \E i \in 1..Len(amount) : IsDigit(At(amount, i)) /\ At(amount, i) # "0"

\* a Hyperpure record has been produced
HpProduced == ex_phase = "done" /\ ex_source = "hyperpure" /\ ex_result # None

\* C11: in every record of the Hyperpure extractor the bulk tiers stand in the price
\* string in non-increasing order of their minimum quantity, compared as integers,
\* whichever unit pattern matched them
C11_TierOrdering ==
    HpProduced =>
        LET NonIncreasing(q) == \A k \in 1..(Len(q) - 1) : q[k] >= q[k + 1]
        IN  /\ NonIncreasing(TierQuantities(ex_result.price))
            /\ Len(TierQuantities(ex_result.price)) = Len(BulkPrices(GetText(ex_element)))

\* a record with three tiers matched by two unit patterns, found in an order that is
\* not the order of their quantities
C11_Witness ==
    /\ HpProduced
    /\ Len(TierQuantities(ex_result.price)) >= 3
    /\ LET Found(tiers) ==
               /\ \E k \in 1..(Len(tiers) - 1) :
                      ParseInt(tiers[k].qty) < ParseInt(tiers[k + 1].qty)
               /\ BulkFindAll(GetText(ex_element), "pc") # << >>
               /\ BulkFindAll(GetText(ex_element), "kg") # << >>
       IN  Found(BulkPrices(GetText(ex_element)))

\* C12: every bulk tier of a record has a minimum quantity of 1 or more and an
\* amount greater than zero
C12_TierInvariant ==
    HpProduced =>
        /\ \A k \in 1..Len(TierQuantities(ex_result.price)) :
               TierQuantities(ex_result.price)[k] >= 1
        /\ \A k \in 1..Len(TierAmounts(ex_result.price)) :
               Positive(TierAmounts(ex_result.price)[k])

(***************************************************************************)
(* Normalization.                                                          *)
(***************************************************************************)
\* C13: normalizing a key again gives the same key
C13_Idempotence ==
    nm_phase = "rekeyed" => nm_rekey = nm_key

CandidateRecords ==
    [ i \in 1..Len(cd_unique) |->
        HpExtractProductInfo(Flatten(cd_soup, cd_unique[i])) ]

\* C15: when _scrape_all_products returns, every unique candidate has been processed,
\* and items holds, in candidate order, exactly the records of the candidates that
\* yielded one, without the later repetitions of a (name, price) pair; a candidate
\* without record is skipped and the count of records never exceeds the count of
\* unique candidates
C15_FailuresIsolated ==
    cd_phase = "done" =>
        LET Yielded(records) ==
                cd_items = FirstOccurrences(SelectSeq(records, LAMBDA r : r # None))
        IN  /\ cd_index = Len(cd_unique) + 1
            /\ Yielded(CandidateRecords)
            /\ Len(cd_items) <= Len(cd_unique)

\* a candidate without record stands before a candidate whose record is in the output
C15_Witness ==
    /\ cd_phase = "done"
    /\ LET Skipped(records) ==
               \E i, j \in 1..Len(records) :
                   /\ i < j
                   /\ records[i] = None
                   /\ records[j] # None
                   /\ \E k \in 1..Len(cd_items) : cd_items[k] = records[j]
       IN  Skipped(CandidateRecords)

\* the candidate set is final: both conditions of lines 241 and 254 have been decided
CandidatesFound == cd_phase \in {"dedup", "extract", "done"}

\* the names of the steps that produced candidates, in the order they were applied
StepsApplied == [ k \in 1..Len(cd_steps) |-> cd_steps[k].step ]

\* every step kept the candidates it found and added its own after them
StepsOnlyAdd ==
    /\ \A k \in 1..(Len(cd_steps) - 1) :
           /\ Len(cd_steps[k].products) <= Len(cd_steps[k + 1].products)
           /\ SubSeq(cd_steps[k + 1].products, 1, Len(cd_steps[k].products))
                  = cd_steps[k].products
    /\ cd_products = cd_steps[Len(cd_steps)].products

\* C16 as stated: a widest selector result of fewer than 20 candidates is followed by
\* both fallback passes, the block scan and then the ancestor walk, each adding to the
\* set; a widest result of 20 or more is followed by neither
C16_BothPasses ==
    CandidatesFound =>
        /\ StepsOnlyAdd
        /\ IF Len(cd_steps[1].products) < 20
           THEN StepsApplied = << "selectors", "method2", "method3" >>
           ELSE StepsApplied = << "selectors" >>

\* C16, amended: the block scan is applied exactly when the widest selector result has
\* fewer than 20 candidates, and the ancestor walk exactly when the set still has fewer
\* than 20 candidates after the block scan; the passes run in that order and each adds
\* to the set without removing candidates
C16_Threshold ==
    CandidatesFound =>
        /\ StepsOnlyAdd
        /\ IF Len(cd_steps[1].products) >= 20
           THEN StepsApplied = << "selectors" >>
           ELSE /\ Len(cd_steps) >= 2
                /\ IF Len(cd_steps[2].products) < 20
                   THEN StepsApplied = << "selectors", "method2", "method3" >>
                   ELSE StepsApplied = << "selectors", "method2" >>

\* the block scan brought a set of fewer than 20 candidates to 20, and the ancestor
\* walk was not applied
C16_Witness ==
    /\ CandidatesFound
    /\ Len(cd_steps[1].products) < 20
    /\ StepsApplied = << "selectors", "method2" >>
    /\ Len(cd_products) > Len(cd_steps[1].products)

\* the ancestor of a string at a level: level 1 is the element that holds the string
\* (0 above the document)
RECURSIVE AncestorAt(_, _, _)
AncestorAt(doc, n, level) ==
    IF level = 1 \/ n = 0 THEN n ELSE AncestorAt(doc, doc[n].parent, level - 1)

\* C17: the ancestor that the walk of Method 3 adds for a currency string is one of
\* the ancestors 3 to 7 levels above the string, namely the lowest of them whose text
\* has a currency amount and a length in (20, 600); one string adds at most one
C17_AncestorLevels ==
    CandidatesFound =>
        \A k \in 1..Len(cd_walk) :
            LET Passing(string) ==
                    { level \in 3..7 :
                        /\ AncestorAt(cd_soup, string, level) # 0
                        /\ BlockTest(cd_soup, AncestorAt(cd_soup, string, level)) }
            IN  cd_walk[k].parent # 0 =>
                    /\ Passing(cd_walk[k].string) # {}
                    /\ cd_walk[k].parent
                           = AncestorAt(cd_soup, cd_walk[k].string, Min(Passing(cd_walk[k].string)))

\* the first 100 characters of the flattened text of a candidate
First100(n) ==
    LET Cut(text) == IF Len(text) <= 100 THEN text ELSE SubSeq(text, 1, 100)
    IN  Cut(TextOf(cd_soup, n))

\* C18: the final candidate list has no two candidates whose texts agree on their
\* first 100 characters, and it is the subsequence of the candidate list (selector
\* results, then the additions of the block scan, then those of the ancestor walk)
\* that keeps, in order, the first candidate of every such signature
C18_CandidateDedup ==
    cd_phase \in {"extract", "done"} =>
        LET Kept(first) == [ k \in 1..Len(first) |-> cd_products[first[k]] ]
            Deduplicated(sig) ==
                /\ cd_unique = Kept(Ascending({ i \in 1..Len(sig) :
                                                  \A j \in 1..(i - 1) : sig[j] # sig[i] }))
                /\ \A i, j \in 1..Len(cd_unique) :
                       i # j => First100(cd_unique[i]) # First100(cd_unique[j])
        IN  /\ StepsOnlyAdd
            /\ Deduplicated([ i \in 1..Len(cd_products) |-> First100(cd_products[i]) ])

\* a candidate was dropped whose text differs from the text of the candidate kept for
\* its signature, after the first 100 characters
C18_Witness ==
    /\ cd_phase \in {"extract", "done"}
    /\ \E i, j \in 1..Len(cd_products) :
           /\ i < j
           /\ First100(cd_products[i]) = First100(cd_products[j])
           /\ TextOf(cd_soup, cd_products[i]) # TextOf(cd_soup, cd_products[j])
           /\ \E k \in 1..Len(cd_unique) : cd_unique[k] = cd_products[i]
           /\ \A k \in 1..Len(cd_unique) : cd_unique[k] # cd_products[j]

\* the Hyperpure extractor has run on the candidate
HpRan == ex_phase = "done" /\ ex_source = "hyperpure"

\* the heading, paragraph and inline elements of the candidate that pass the
\* acceptance test of strategy 1
Strategy1Accepted ==
    { i \in 1..Len(ex_element) :
        /\ ex_element[i].tag \in {"h1", "h2", "h3", "h4", "h5", "h6", "p", "span", "div"}
        /\ NameAccepted1(StrippedText(ex_element[i])) }

\* the place of a tag in the order h1, ..., h6, p, span, div
TagPlace(tag) == CHOOSE k \in 1..Len(NameTags) : NameTags[k] = tag

\* C19 as stated: the name of strategy 1 is the text of the accepted element that
\* comes first in document order, whatever its tag
C19_DocumentOrder ==
    HpRan =>
        IF Strategy1Accepted = {} THEN NameStrategy1(ex_element) = ""
        ELSE NameStrategy1(ex_element)
                 = StrippedText(ex_element[Min(Strategy1Accepted)])

\* C19, amended: the name of strategy 1 is the text of an accepted element such that
\* no accepted element has a tag earlier in the order h1, ..., h6, p, span, div, and
\* no accepted element of the same tag comes before it in document order
C19_TagOrder ==
    HpRan =>
        IF Strategy1Accepted = {} THEN NameStrategy1(ex_element) = ""
        ELSE \E i \in Strategy1Accepted :
                 /\ NameStrategy1(ex_element) = StrippedText(ex_element[i])
                 /\ \A j \in Strategy1Accepted :
                        \/ TagPlace(ex_element[j].tag) > TagPlace(ex_element[i].tag)
                        \/ /\ ex_element[j].tag = ex_element[i].tag
                           /\ j >= i

\* an accepted inline element stands before an accepted heading, and the record has
\* the name of the heading
C19_Witness ==
    /\ HpProduced
    /\ \E i, j \in Strategy1Accepted :
           /\ i < j
           /\ ex_element[i].tag = "span"
           /\ ex_element[j].tag = "h3"
           /\ ex_result.name = StrippedText(ex_element[j])
           /\ ex_result.name # StrippedText(ex_element[i])

\* the unit labels of a text that lie within 50 characters of a currency match: a
\* unit word after a slash, or a unit word between two white-space characters
LabelsNear(text, m) ==
    LET Inside(p, q) == Max({1, m.start - 50}) <= p /\ q <= Min({Len(text), m.end + 49})
        Slashed == { p \in 1..Len(text) :
                       /\ At(text, p) = "/"
                       /\ HasUnitTypeAt(text, p + 1)
                       /\ Inside(p, p + Len(UnitTypeAt(text, p + 1))) }
        Spaced == { p \in 1..Len(text) :
                      /\ IsSpace(At(text, p))
                      /\ HasUnitTypeAt(text, p + 1)
                      /\ IsSpace(At(text, p + 1 + Len(UnitTypeAt(text, p + 1))))
                      /\ Inside(p, p + 1 + Len(UnitTypeAt(text, p + 1))) }
    IN  { UnitTypeAt(text, p + 1) : p \in Slashed \cup Spaced }

\* the display strings of the bulk tiers of a text, largest minimum quantity first
BulkTierStrings(text) ==
    LET Shown(sorted) == [ k \in 1..Len(sorted) |-> BulkTierString(sorted[k], text) ]
    IN  Shown(BulkPricesSorted(text))

\* C20: the price of every Hyperpure record is the display strings of its tiers joined
\* by " | ": the bulk tiers, largest minimum quantity first, then exactly one base tier
\* with the amount of the last currency occurrence of the text, "Base: <amount>/<unit>"
\* when a unit label lies within 50 characters of that occurrence and "Base: <amount>"
\* when none does; no unlabeled tier of the first occurrence stands beside them
C20_ComposedPrice ==
    HpProduced =>
        LET Composed(text, last, labels) ==
                /\ PriceMatches(text) # {}
                /\ \E base \in IF labels = {}
                                THEN { "Base: ₹" \o last.amount }
                                ELSE { "Base: ₹" \o last.amount \o "/" \o u : u \in labels } :
                       ex_result.price = Join(" | ", BulkTierStrings(text) \o << base >>)
            Last(text, m) == Composed(text, m, LabelsNear(text, m))
            Priced(text) == Last(text, CurrencyMatch(text, Max(PriceMatches(text))))
        IN  Priced(GetText(ex_element))

\* a record with a bulk tier and a labelled base tier whose amount is not the amount
\* of the first currency occurrence of the text
C20_Witness ==
    /\ HpProduced
    /\ LET Tiered(text) ==
               /\ BulkTierStrings(text) # << >>
               /\ LabelsNear(text, CurrencyMatch(text, Max(PriceMatches(text)))) # {}
               /\ CurrencyMatch(text, Max(PriceMatches(text))).amount
                      # CurrencyMatch(text, Min(PriceMatches(text))).amount
       IN  Tiered(GetText(ex_element))

\* a record whose text has a unit label, but none within 50 characters of the last
\* currency occurrence: the base tier carries no unit
C20_FarLabel ==
    /\ HpProduced
    /\ LET Far(text) ==
               /\ \E p \in 1..Len(text) : At(text, p) = "/" /\ HasUnitTypeAt(text, p + 1)
               /\ LabelsNear(text, CurrencyMatch(text, Max(PriceMatches(text)))) = {}
       IN  Far(GetText(ex_element))

\* how many bulk tiers of a composed price string are labelled with a unit
TiersLabelled(price, unit) ==
    Cardinality({ i \in 1..Len(price) : StartsWithAt(price, i, "/" \o unit \o " for ") })

\* how many phrases of the text matched the bulk patterns of a unit class
TiersMatched(text, units) ==
    Cardinality({ i \in 1..Len(text) : \E u \in units : BulkMatchAt(text, i, u).ok })

\* C21: the bulk tiers of every Hyperpure record carry the unit class of the phrase
\* that matched them: as many tiers are labelled pc, kg and gm as phrases matched the
\* per-piece, per-kg and per-gm patterns
C21_UnitFidelity ==
    HpProduced =>
        LET Faithful(text) ==
                /\ TiersLabelled(ex_result.price, "pc") = TiersMatched(text, {"pc", "piece"})
                /\ TiersLabelled(ex_result.price, "kg") = TiersMatched(text, {"kg"})
                /\ TiersLabelled(ex_result.price, "gm") = TiersMatched(text, {"gm"})
        IN  Faithful(GetText(ex_element))

\* a word stands alone at position i of a string, in any letter case
StandsAlone(s, i, word) ==
    /\ StartsWithAtI(s, i, word)
    /\ ~ IsWordChar(At(s, i - 1))
    /\ ~ IsWordChar(At(s, i + Len(word)))

\* C22: the name of every Hyperpure record has no currency symbol, no white space at
\* its start or end, no two white-space characters in a row, and none of the words
\* add, added, view, buy, select, choose standing alone in any letter case
C22_CleanName ==
    HpProduced =>
        LET Clean(name) ==
                /\ \A i \in 1..Len(name) : At(name, i) # "₹"
                /\ ~ IsSpace(At(name, 1))
                /\ ~ IsSpace(At(name, Len(name)))
                /\ \A i \in 1..(Len(name) - 1) :
                       ~ (IsSpace(At(name, i)) /\ IsSpace(At(name, i + 1)))
                /\ \A i \in 1..Len(name) :
                       \A word \in {"add", "added", "view", "buy", "select", "choose"} :
                           ~ StandsAlone(name, i, word)
        IN  Clean(ex_result.name)

\* the items of the requested pages that had any, in the order of the requests
RECURSIVE ItemsKept(_)
ItemsKept(k) ==
    IF k = 0 THEN << >>
    ELSE ItemsKept(k - 1)
         \o (IF pg_responses[k] \in {"last", "next"} THEN ItemsOfPage(pg_requested[k])
             ELSE << >>)

\* pages are requested in the order 1, 2, 3, ..., at most 50 of them; every page
\* before the last requested one had items and a next-page indicator; the items of
\* every page that had any are kept; the loop has ended only after a page that
\* raised, was empty or had no indicator, or after page 50; what is returned is the
\* frame of the items kept
PagingInvariant ==
    /\ pg_requested = [ k \in 1..Len(pg_requested) |-> k ]
    /\ Len(pg_requested) <= 50
    /\ Len(pg_responses) = Len(pg_requested)
    /\ \A k \in 1..(Len(pg_responses) - 1) : pg_responses[k] = "next"
    /\ pg_all_items = ItemsKept(Len(pg_requested))
    /\ pg_phase \in {"return", "done"} =>
           /\ pg_requested # << >>
           /\ \/ pg_responses[Len(pg_responses)] \in {"raises", "empty", "last"}
              \/ Len(pg_requested) = 50
    /\ pg_phase = "loop" =>
           \A k \in 1..Len(pg_responses) : pg_responses[k] = "next"
    /\ pg_phase = "done" =>
           /\ pg_df # None
           /\ Len(pg_df.rows) = Len(pg_all_items)

UnchangedRun == sc_attempt - sc_last_change

\* C24: _scroll_page runs at most 50 iterations; no_change_count is the number of
\* iterations in a row, up to the last one, that measured an unchanged height (a
\* change resets it to 0); without a driver error the loop is left before the 50th
\* iteration has run exactly when the counter reaches 5, after the final scrolls up
\* and down, so never while the height changed within the last 5 iterations; a driver
\* error ends the method, which returns
C24_ScrollLoop ==
    /\ sc_attempt <= 50
    /\ sc_no_change = UnchangedRun
    /\ sc_phase = "loop" => sc_no_change < 5 /\ ~ sc_final /\ sc_exit = ""
    /\ sc_phase = "done" =>
           /\ sc_exit \in {"settled", "exhausted", "error"}
           /\ sc_exit = "settled" <=> sc_no_change = 5
           /\ sc_exit = "settled" <=> sc_final
           /\ sc_exit = "exhausted" => sc_attempt = 50 /\ UnchangedRun < 5
           /\ sc_exit # "error" /\ sc_attempt < 50 => UnchangedRun = 5

\* the height changed after some unchanged iterations, the counter started again, and
\* the loop was left after five more unchanged iterations, before the 50th
C24_Witness ==
    /\ sc_phase = "done"
    /\ sc_exit = "settled"
    /\ sc_final
    /\ sc_last_change >= 3
    /\ sc_attempt = sc_last_change + 5
    /\ sc_attempt < 50


====
